---- MODULE Spec2Model ----
(***************************************************************************)
(* Verification model of the contract analyzer's core: the free-text      *)
(* response parser (modules/contract_analyzer.py) and the rule-based risk *)
(* detector and score aggregator (modules/risk_detector.py).              *)
(*                                                                         *)
(* Python strings are TLA+ strings; the str methods the code uses are     *)
(* defined below on them, character by character.                         *)
(***************************************************************************)
EXTENDS Integers, Sequences, FiniteSets, TLC

VARIABLES
    pc,               \* which component runs, and where it is
    lines,            \* parser: response_text.split('\n')
    idx,              \* parser: index of the next line of the for loop
    current_section,  \* parser: the current-section pointer
    current_item,     \* parser: the risk item being accumulated (a dict)
    result,           \* parser: the result dict
    started,          \* parser, observation only: item-start lines taken so far
    risks_in,         \* aggregator: the list of findings handed in
    overall,          \* aggregator: the level returned for risks_in
    prev_overall,     \* aggregator, observation only: the level returned before the last change
    last_op,          \* aggregator, observation only: the last change made to risks_in
    contract_text,    \* detector: the contract text
    detection,        \* detector: the dict returned by run_automated_risk_detection
    rec_risks,        \* recommender: the risks list handed in
    rec_missing,      \* recommender: the missing-clause list handed in
    rec_out,          \* recommender: the list returned
    contract1_analysis,  \* comparator: the analysis dict of contract 1
    contract2_analysis,  \* comparator: the analysis dict of contract 2
    comparison,       \* comparator: <<>>, or <<d>> for the dict d returned
    api_key,          \* AI functions: the api_key argument, "" when there is none
    backend,          \* AI functions: what client.messages.create does when called
    called,           \* AI functions: the function that was called
    returned,         \* AI functions: how the call ended and what it returned
    widgets,          \* application: the state of the upload and option widgets
    session,          \* application: st.session_state
    env_api_key,      \* application: os.environ.get("ANTHROPIC_API_KEY"), "" for None
    event,            \* application: the user interaction the next script run answers
    last_run,         \* application, observation only: what the last script run did
    clause_call,      \* clause analysis: the arguments of analyze_specific_clause
    clause_out,       \* clause analysis: <<>>, or <<d>> for the dict d returned
    session_state     \* session operations: the keys and values of st.session_state

vars == <<pc, lines, idx, current_section, current_item, result, started,
          risks_in, overall, prev_overall, last_op, contract_text, detection,
          rec_risks, rec_missing, rec_out,
          contract1_analysis, contract2_analysis, comparison,
          api_key, backend, called, returned,
          widgets, session, env_api_key, event, last_run,
          clause_call, clause_out, session_state>>

parserVars == <<lines, idx, current_section, current_item, result, started>>
scoreVars == <<risks_in, overall, prev_overall, last_op>>
detectVars == <<contract_text, detection>>
recVars == <<rec_risks, rec_missing, rec_out>>
compareVars == <<contract1_analysis, contract2_analysis, comparison>>
aiVars == <<api_key, backend, called, returned>>
appVars == <<widgets, session, env_api_key, event, last_run>>
clauseVars == <<clause_call, clause_out>>
sessionVars == <<session_state>>

\* The variables of the components other than the one named
notParser ==
    <<scoreVars, detectVars, recVars, compareVars, aiVars, appVars, clauseVars, sessionVars>>
notScore ==
    <<parserVars, detectVars, recVars, compareVars, aiVars, appVars, clauseVars, sessionVars>>
notDetect ==
    <<parserVars, scoreVars, recVars, compareVars, aiVars, appVars, clauseVars, sessionVars>>
notRec ==
    <<parserVars, scoreVars, detectVars, compareVars, aiVars, appVars, clauseVars, sessionVars>>
notCompare ==
    <<parserVars, scoreVars, detectVars, recVars, aiVars, appVars, clauseVars, sessionVars>>

(***************************************************************************)
(* Bounds of the model.                                                    *)
(***************************************************************************)
MaxLines == 3       \* lines of a freely composed response text
MaxFindings == 3    \* findings in a list handed to the score aggregator
MaxFrags == 2       \* fragments a contract text is composed of

(***************************************************************************)
(* Python str operations.                                                  *)
(***************************************************************************)
CharAt(s, i) == SubSeq(s, i, i)

\* sub in s
Contains(s, sub) ==
    \E i \in 1..(Len(s) - Len(sub) + 1) : SubSeq(s, i, i + Len(sub) - 1) = sub

\* s.startswith(p)
StartsWith(s, p) == Len(s) >= Len(p) /\ SubSeq(s, 1, Len(p)) = p

\* s.find(sub) + 1, or 0 when sub does not occur
FindFirst(s, sub) ==
    IF Contains(s, sub)
    THEN CHOOSE i \in 1..(Len(s) - Len(sub) + 1) :
            /\ SubSeq(s, i, i + Len(sub) - 1) = sub
            /\ \A j \in 1..(i - 1) : SubSeq(s, j, j + Len(sub) - 1) # sub
    ELSE 0

Whitespace == {" "}
Digits == {"0", "1", "2", "3", "4", "5", "6", "7", "8", "9"}
\* The bullet character U+2022 of the source, written as an ASCII character
\* that no modelled text uses otherwise.
Bullet == "@"

\* s.lstrip(chars)
LStripSet(s, cs) ==
    LET k == CHOOSE k \in 0..Len(s) :
                /\ \A j \in 1..k : CharAt(s, j) \in cs
                /\ (k = Len(s) \/ CharAt(s, k + 1) \notin cs)
    IN SubSeq(s, k + 1, Len(s))

\* s.rstrip(chars)
RStripSet(s, cs) ==
    LET k == CHOOSE k \in 0..Len(s) :
                /\ \A j \in (k + 1)..Len(s) : CharAt(s, j) \in cs
                /\ (k = 0 \/ CharAt(s, k) \notin cs)
    IN SubSeq(s, 1, k)

\* s.strip()
Strip(s) == RStripSet(LStripSet(s, Whitespace), Whitespace)

LowerAlpha == "abcdefghijklmnopqrstuvwxyz"
UpperAlpha == "ABCDEFGHIJKLMNOPQRSTUVWXYZ"

UpperChar(c) ==
    IF \E i \in 1..26 : CharAt(LowerAlpha, i) = c
    THEN CharAt(UpperAlpha, CHOOSE i \in 1..26 : CharAt(LowerAlpha, i) = c)
    ELSE c

LowerChar(c) ==
    IF \E i \in 1..26 : CharAt(UpperAlpha, i) = c
    THEN CharAt(LowerAlpha, CHOOSE i \in 1..26 : CharAt(UpperAlpha, i) = c)
    ELSE c

RECURSIVE Upper(_)
\* s.upper()
Upper(s) == IF Len(s) = 0 THEN "" ELSE UpperChar(CharAt(s, 1)) \o Upper(Tail(s))

RECURSIVE Lower(_)
\* s.lower()
Lower(s) == IF Len(s) = 0 THEN "" ELSE LowerChar(CharAt(s, 1)) \o Lower(Tail(s))

RECURSIVE RemoveChars(_, _)
\* s with every character of cs deleted: s.replace(c, '') for each c in cs
RemoveChars(s, cs) ==
    IF Len(s) = 0 THEN ""
    ELSE (IF CharAt(s, 1) \in cs THEN "" ELSE CharAt(s, 1)) \o RemoveChars(Tail(s), cs)

RECURSIVE NormalizeSpaces(_)
\* ' '.join(s.split()): runs of whitespace become one space, none at the ends
NormalizeSpaces(s) ==
    LET t == Strip(s) IN
    IF Len(t) = 0 THEN ""
    ELSE IF ~Contains(t, " ") THEN t
    ELSE LET p == FindFirst(t, " ")
         IN SubSeq(t, 1, p - 1) \o " " \o NormalizeSpaces(SubSeq(t, p + 1, Len(t)))

\* re.sub(r'^\d+\.?\s*', '', s): a leading number, an optional dot and the
\* whitespace after it are removed; a string not starting with a digit is kept.
StripLeadingNumber(s) ==
    IF Len(s) > 0 /\ CharAt(s, 1) \in Digits
    THEN LET d == LStripSet(s, Digits)
             e == IF StartsWith(d, ".") THEN Tail(d) ELSE d
         IN LStripSet(e, Whitespace)
    ELSE s

\* s.split(sep)[0]
SplitFirst(s, sep) ==
    IF Contains(s, sep) THEN SubSeq(s, 1, FindFirst(s, sep) - 1) ELSE s

\* s.split(sep)[1], for s containing sep
SplitSecond(s, sep) ==
    LET rest == SubSeq(s, FindFirst(s, sep) + Len(sep), Len(s))
    IN SplitFirst(rest, sep)

\* line and line[0].isdigit() and '.' in line[:3]
NumberedPrefix(line) ==
    /\ Len(line) > 0
    /\ CharAt(line, 1) \in Digits
    /\ Contains(SubSeq(line, 1, IF Len(line) < 3 THEN Len(line) ELSE 3), ".")

(***************************************************************************)
(* parse_analysis_response: the free-text response parser.                 *)
(***************************************************************************)
\* for risk in ['CRITICAL', 'HIGH', 'MEDIUM', 'LOW', 'MINIMAL']
RiskOrder == <<"CRITICAL", "HIGH", "MEDIUM", "LOW", "MINIMAL">>
Levels == {RiskOrder[k] : k \in 1..Len(RiskOrder)}

\* Faulty variant: the search runs from MINIMAL up to CRITICAL.
FirstLevelIn_Ascending(line) ==
    LET up == Upper(line)
        hits == {k \in 1..Len(RiskOrder) : Contains(up, RiskOrder[k])}
    IN IF hits = {} THEN ""
       ELSE RiskOrder[CHOOSE k \in hits : \A m \in hits : k >= m]

\* The first level of RiskOrder that occurs in line.upper(), or "" when the
\* loop ends without a break.
FirstLevelIn(line) ==
    LET up == Upper(line)
        hits == {k \in 1..Len(RiskOrder) : Contains(up, RiskOrder[k])}
    IN IF hits = {} THEN ""
       ELSE RiskOrder[CHOOSE k \in hits : \A m \in hits : k <= m]

\* The result structure the parser starts from.
InitialResult ==
    [summary |-> "", overall_risk |-> "MEDIUM", key_terms |-> <<>>, risks |-> <<>>,
     red_flags |-> <<>>, missing_clauses |-> <<>>, recommendations |-> <<>>]

\* A dict of a risk item: keys is the set of keys present.
EmptyItem == [keys |-> {}, text |-> "", level |-> ""]
\* bool(current_item)
Truthy(item) == item.keys # {}

\* clean_line_upper of a stripped line
CleanLineUpper(line) == Upper(StripLeadingNumber(Strip(RemoveChars(line, {"#"}))))

\* Faulty variant: an 'Overall Risk' line is taken as the summary header.
DetectSection_OverallRisk(line) ==
    LET u == CleanLineUpper(line) IN
    IF Contains(u, "EXECUTIVE SUMMARY") \/ Contains(u, "OVERALL RISK") THEN "summary"
    ELSE IF Contains(u, "KEY TERMS") THEN "key_terms"
    ELSE IF Contains(u, "RISK ASSESSMENT") THEN "risks"
    ELSE IF Contains(u, "RED FLAG") THEN "red_flags"
    ELSE IF Contains(u, "MISSING CLAUSE") THEN "missing_clauses"
    ELSE IF Contains(u, "RECOMMENDATION") THEN "recommendations"
    ELSE ""

\* The section a line switches to, or "" when it is not a header line.
DetectSection(line) ==
    LET u == CleanLineUpper(line) IN
    IF Contains(u, "EXECUTIVE SUMMARY") THEN "summary"
    ELSE IF Contains(u, "KEY TERMS") THEN "key_terms"
    ELSE IF Contains(u, "RISK ASSESSMENT") THEN "risks"
    ELSE IF Contains(u, "RED FLAGS") \/ Contains(u, "RED FLAG") THEN "red_flags"
    ELSE IF Contains(u, "MISSING CLAUSES") \/ Contains(u, "MISSING CLAUSE") THEN "missing_clauses"
    ELSE IF Contains(u, "RECOMMENDATIONS") \/ Contains(u, "RECOMMENDATION") THEN "recommendations"
    ELSE ""

\* The outcome of one section branch: the new item and result, whether an
\* item-start line was taken, and whether the branch raised.
Outcome(item, res, isStart, raised) ==
    [item |-> item, result |-> res, isStart |-> isStart, raised |-> raised]

\* current_section == 'summary'
ScanSummary(line, item, res) ==
    IF StartsWith(line, "#") THEN Outcome(item, res, FALSE, FALSE)
    ELSE
    \* The two re.sub calls delete only asterisks and the replace calls
    \* delete the asterisks that are left: every '*' goes, nothing else.
    LET clean_text == NormalizeSpaces(RemoveChars(line, {"*"})) IN
    IF Contains(Lower(clean_text), "overall risk")
    THEN LET summary_part == Strip(SubSeq(clean_text, 1,
                                   FindFirst(Lower(clean_text), "overall risk") - 1))
             withSummary == IF summary_part # ""
                            THEN [res EXCEPT !.summary = @ \o summary_part \o " "]
                            ELSE res
             lvl == FirstLevelIn(line)
         IN Outcome(item,
                    IF lvl # "" THEN [withSummary EXCEPT !.overall_risk = lvl]
                    ELSE withSummary,
                    FALSE, FALSE)
    ELSE Outcome(item,
                 IF clean_text # ""
                 THEN [res EXCEPT !.summary = @ \o clean_text \o " "]
                 ELSE res,
                 FALSE, FALSE)

\* current_section == 'key_terms'
ScanKeyTerms(line, item, res) ==
    IF StartsWith(line, "-") \/ StartsWith(line, Bullet) \/ StartsWith(line, "**-")
    THEN LET clean_line == Strip(LStripSet(line, {"-", Bullet, "*", " "}))
         IN Outcome(item,
                    IF clean_line # ""
                    THEN [res EXCEPT !.key_terms = Append(@, clean_line)]
                    ELSE res,
                    FALSE, FALSE)
    ELSE Outcome(item, res, FALSE, FALSE)

\* line.startswith('**Risk') or line.startswith('###') or line.startswith('**Category')
IsItemStart(line) ==
    StartsWith(line, "**Risk") \/ StartsWith(line, "###") \/ StartsWith(line, "**Category")

\* 'Risk Level:' in line or '**Risk Level**:' in line
IsRiskLevelLine(line) == Contains(line, "Risk Level:") \/ Contains(line, "**Risk Level**:")

\* current_section == 'risks'
ScanRisks(line, item, res) ==
    IF IsItemStart(line)
    THEN Outcome([keys |-> {"text", "level"},
                  text |-> Strip(LStripSet(line, {"#", "*", " "})),
                  level |-> "MEDIUM"],
                 IF Truthy(item) THEN [res EXCEPT !.risks = Append(@, item)] ELSE res,
                 TRUE, FALSE)
    ELSE IF IsRiskLevelLine(line)
    THEN LET lvl == FirstLevelIn(line)
         IN Outcome(IF lvl # ""
                    THEN [item EXCEPT !.keys = @ \cup {"level"}, !.level = lvl]
                    ELSE item,
                    res, FALSE, FALSE)
    ELSE IF Truthy(item)
    THEN \* current_item['text'] += ...: a KeyError when the dict has no 'text'
         IF "text" \in item.keys
         THEN Outcome([item EXCEPT !.text = @ \o " " \o Strip(line)], res, FALSE, FALSE)
         ELSE Outcome(item, res, FALSE, TRUE)
    ELSE Outcome(item, res, FALSE, FALSE)

\* current_section in ['red_flags', 'missing_clauses']
ScanFlagsOrMissing(section, line, item, res) ==
    IF \/ StartsWith(line, "-") \/ StartsWith(line, Bullet) \/ StartsWith(line, "**-")
       \/ NumberedPrefix(line)
    THEN LET clean_line == Strip(LStripSet(line, {"-", Bullet, "*", ".", " ", ")"} \cup Digits))
         IN Outcome(item,
                    IF clean_line = "" THEN res
                    ELSE IF section = "red_flags"
                    THEN [res EXCEPT !.red_flags = Append(@, clean_line)]
                    ELSE [res EXCEPT !.missing_clauses = Append(@, clean_line)],
                    FALSE, FALSE)
    ELSE Outcome(item, res, FALSE, FALSE)

\* Faulty variant: an entry of 10 characters is kept.
ScanRecommendations_TenKept(line, item, res) ==
    IF StartsWith(line, "-") \/ StartsWith(line, Bullet) \/ NumberedPrefix(line)
    THEN LET clean_line == Strip(LStripSet(line, {"-", Bullet, ".", " "} \cup Digits))
         IN Outcome(item,
                    IF clean_line # "" /\ Len(clean_line) >= 10
                    THEN [res EXCEPT !.recommendations = Append(@, clean_line)]
                    ELSE res,
                    FALSE, FALSE)
    ELSE Outcome(item, res, FALSE, FALSE)

\* current_section == 'recommendations'
ScanRecommendations(line, item, res) ==
    IF StartsWith(line, "-") \/ StartsWith(line, Bullet) \/ NumberedPrefix(line)
    THEN LET clean_line == Strip(LStripSet(line, {"-", Bullet, ".", " "} \cup Digits))
         IN Outcome(item,
                    IF clean_line # "" /\ Len(clean_line) > 10
                    THEN [res EXCEPT !.recommendations = Append(@, clean_line)]
                    ELSE res,
                    FALSE, FALSE)
    ELSE Outcome(item, res, FALSE, FALSE)

\* "Parse content based on section": the branch of the current section.
ScanContent(section, line, item, res) ==
    IF section = "summary" THEN ScanSummary(line, item, res)
    ELSE IF section = "key_terms" THEN ScanKeyTerms(line, item, res)
    ELSE IF section = "risks" THEN ScanRisks(line, item, res)
    ELSE IF section \in {"red_flags", "missing_clauses"}
    THEN ScanFlagsOrMissing(section, line, item, res)
    ELSE IF section = "recommendations" THEN ScanRecommendations(line, item, res)
    ELSE Outcome(item, res, FALSE, FALSE)

\* Faulty variant: the item in flight when the loop ends is never appended.
FlushLast_NoFlush(section, item, res) == res

\* "Add last risk item"
FlushLast(section, item, res) ==
    IF Truthy(item) /\ section = "risks"
    THEN [res EXCEPT !.risks = Append(@, item)]
    ELSE res

\* "Clean summary" and "Fix capitalization"
CleanSummary(res) ==
    LET s == Strip(res.summary)
    IN [res EXCEPT !.summary = IF s # "" THEN UpperChar(CharAt(s, 1)) \o Tail(s) ELSE s]

\* The recommendation one risk item yields in the fallback loop, or "".
EmbeddedRecommendation(risk) ==
    LET risk_text == IF "text" \in risk.keys THEN risk.text ELSE "" IN
    IF Contains(risk_text, "**Recommendation**:") \/ Contains(risk_text, "Recommendation:")
    THEN LET sep == IF Contains(risk_text, "**") THEN "ecommendation**:"
                    ELSE "ecommendation:"
         IN IF Contains(risk_text, sep)
            THEN LET rec == Strip(SplitSecond(risk_text, sep))
                 IN IF rec # "" /\ Len(rec) > 20 THEN rec ELSE ""
            ELSE ""
    ELSE ""

RECURSIVE LiftFrom(_, _)
LiftFrom(risks, recs) ==
    IF risks = <<>> THEN recs
    ELSE LET rec == EmbeddedRecommendation(Head(risks))
         IN LiftFrom(Tail(risks), IF rec # "" THEN Append(recs, rec) ELSE recs)

\* "Extract recommendations from risks if needed"
RecommendationFallback(res) ==
    IF Len(res.recommendations) < 2
    THEN [res EXCEPT !.recommendations = LiftFrom(res.risks, @)]
    ELSE res

(***************************************************************************)
(* Response texts the parser is run on.                                    *)
(***************************************************************************)
\* Lines a freely composed response text is made of.
FreeLines ==
    { "  ",
      "1. EXECUTIVE SUMMARY",
      "Overall Risk: LOW",
      "## 3. RISK ASSESSMENT",
      "### Risk 1: Late fees",
      "- Risk Level: HIGH",
      "Fees are due late",
      "**Recommendation**: Do X.",
      "4. RED FLAGS",
      "- No liability cap",
      "6. RECOMMENDATIONS",
      "- Cap the liability" }

RECURSIVE SeqsUpTo(_, _)
\* All sequences over S of length at most n
SeqsUpTo(S, n) ==
    IF n = 0 THEN {<<>>}
    ELSE LET shorter == SeqsUpTo(S, n - 1)
         IN shorter \cup {Append(q, x) : q \in {r \in shorter : Len(r) = n - 1}, x \in S}

FreeInputs == SeqsUpTo(FreeLines, MaxLines)

\* How the two items of a list section are marked.
BulletStyles == {"dash", "bullet", "number"}
\* How the two items of the risks section are marked.
RiskStyles == {"dash", "heading", "bold"}

Marked(style, n, text) ==
    IF style = "dash" THEN "- " \o text
    ELSE IF style = "bullet" THEN Bullet \o " " \o text
    ELSE (IF n = 1 THEN "1. " ELSE "2. ") \o text

MarkedRisk(style, text) ==
    IF style = "dash" THEN "- " \o text
    ELSE IF style = "heading" THEN "### " \o text
    ELSE "**Risk: " \o text \o "**"

\* A response in the format get_analysis_prompt asks for: the six section
\* headers once, in the prompt's order, two items under each list section.
RoundTripText(b, r) ==
    << "1. EXECUTIVE SUMMARY",
       "A service agreement.",
       "2. KEY TERMS",
       Marked(b, 1, "Net 30 days"),
       Marked(b, 2, "Term of one year"),
       "3. RISK ASSESSMENT",
       MarkedRisk(r, "Unlimited liability"),
       MarkedRisk(r, "Late fees"),
       "4. RED FLAGS",
       Marked(b, 1, "Ambiguous scope"),
       Marked(b, 2, "One-sided exit"),
       "5. MISSING CLAUSES",
       Marked(b, 1, "Force Majeure"),
       Marked(b, 2, "Governing Law"),
       "6. RECOMMENDATIONS",
       Marked(b, 1, "Cap the liability"),
       Marked(b, 2, "Add a notice period") >>

RoundTripInputs == {RoundTripText(b, r) : b \in BulletStyles, r \in RiskStyles}

\* A risk item as the model may write it: a start line, a line that gives
\* the item's level, and a line of description.
RiskLevelLines ==
    { "- Risk Level: HIGH",
      "Risk Level: unknown",
      "**Risk Level**: LOW",
      "**Risk Level: CRITICAL**",
      "### Risk Level: HIGH" }
RiskItemInputs ==
    { <<"3. RISK ASSESSMENT", start, level, "Fees are due late">> :
        start \in {"### Risk 1: Late fees", "**Category: Payment**"},
        level \in RiskLevelLines }

\* Lines of an executive summary, with and without the overall risk
SummaryLines ==
    { "A fair deal.",
      "A fair deal. Overall Risk: **High**",
      "Mostly fair. OVERALL RISK: low to medium",
      "The overall risk is not rated",
      "## Overall Risk: HIGH" }
SummaryInputs ==
    { <<"1. EXECUTIVE SUMMARY", s1, s2>> : s1 \in SummaryLines, s2 \in SummaryLines }

\* Lines of a recommendations section: items of 10 and of 11 characters
\* behind a dash, a bullet or a number, and a line with no marker
RecommendationLines ==
    { "- Cap it now",
      "- Cap it now!",
      "1. Cap it now",
      "2. Cap it now!",
      Bullet \o " Sign it",
      "Cap the liability" }
RecommendationInputs ==
    { <<"6. RECOMMENDATIONS", r1, r2>> :
        r1 \in RecommendationLines, r2 \in RecommendationLines }

ParserInputs ==
    FreeInputs \cup RoundTripInputs \cup RiskItemInputs \cup SummaryInputs
        \cup RecommendationInputs

(***************************************************************************)
(* The parser as a state machine: one step per iteration of the for loop,  *)
(* one for the code after the loop.                                        *)
(***************************************************************************)
\* The detector's result before it has run
NoDetection ==
    [made |-> FALSE, risks |-> <<>>, missing_clauses |-> <<>>, overall_risk |-> "",
     risk_count |-> 0, recommendations |-> <<>>]

IdleScore == risks_in = <<>> /\ overall = "" /\ prev_overall = "" /\ last_op = ""
IdleDetect == contract_text = "" /\ detection = NoDetection
IdleParser ==
    /\ lines = <<>> /\ idx = 0 /\ current_section = "none"
    /\ current_item = EmptyItem /\ result = InitialResult /\ started = 0
IdleRec == rec_risks = <<>> /\ rec_missing = <<>> /\ rec_out = <<>>

IdleCompare ==
    contract1_analysis = <<>> /\ contract2_analysis = <<>> /\ comparison = <<>>

\* st.session_state after init_session on a new session; None is <<>> and a
\* value v that may be None is <<v>>.
FreshSession ==
    [contract_uploaded |-> FALSE, contract_text |-> <<>>, contract_filename |-> <<>>,
     contract1_file |-> <<>>, analysis_results |-> <<>>, analysis_complete |-> FALSE,
     clause_results |-> <<>>, comparison_mode |-> FALSE, contract2_file |-> <<>>,
     contract2_text |-> <<>>, contract2_filename |-> <<>>, analysis2_results |-> <<>>,
     comparison_results |-> <<>>, language |-> "en", number_format |-> "international"]
\* The widgets of a new session: no file in any uploader, the radio and the
\* selectbox at index 0.
FreshWidgets ==
    [single_contract_uploader |-> <<>>, contract1_uploader |-> <<>>,
     contract2_uploader |-> <<>>, analysis_type |-> "full",
     clause_type |-> "Payment Terms"]
\* A script run that stopped at the place named before any analysis step
StoppedRun(place) ==
    [stopped |-> place, clicked |-> "", analyze_button |-> FALSE,
     results_shown |-> FALSE, export_shown |-> FALSE, export_raised |-> FALSE,
     new_button |-> FALSE, steps |-> {}, ai_failed |-> FALSE]
\* A user interaction: the button clicked, "" for none, and the value of
\* the comparison checkbox
Event(clicked, cm) == [clicked |-> clicked, comparison |-> cm]
IdleApp ==
    /\ widgets = FreshWidgets /\ session = FreshSession
    /\ env_api_key = "" /\ event = Event("", FALSE) /\ last_run = StoppedRun("")

NoBackend == [raises |-> FALSE, text |-> <<>>]
NotReturned == [raised |-> FALSE, value |-> <<>>]
IdleAi == api_key = "" /\ backend = NoBackend /\ called = "" /\ returned = NotReturned
IdleClause == clause_call = <<>> /\ clause_out = <<>>
IdleSession == session_state = <<>>

\* The components other than the one named have not run
IdleNotParser ==
    IdleScore /\ IdleDetect /\ IdleRec /\ IdleCompare /\ IdleAi /\ IdleApp
        /\ IdleClause /\ IdleSession
IdleNotScore ==
    IdleParser /\ IdleDetect /\ IdleRec /\ IdleCompare /\ IdleAi /\ IdleApp
        /\ IdleClause /\ IdleSession
IdleNotDetect ==
    IdleParser /\ IdleScore /\ IdleRec /\ IdleCompare /\ IdleAi /\ IdleApp
        /\ IdleClause /\ IdleSession
IdleNotRec ==
    IdleParser /\ IdleScore /\ IdleDetect /\ IdleCompare /\ IdleAi /\ IdleApp
        /\ IdleClause /\ IdleSession
IdleNotCompare ==
    IdleParser /\ IdleScore /\ IdleDetect /\ IdleRec /\ IdleAi /\ IdleApp
        /\ IdleClause /\ IdleSession

InitParse ==
    /\ pc = "scan"
    /\ lines \in ParserInputs
    /\ idx = 1
    /\ current_section = "none"
    /\ current_item = EmptyItem
    /\ result = InitialResult
    /\ started = 0
    /\ IdleNotParser

\* One iteration of "for i, line in enumerate(lines)".
ScanLine ==
    /\ pc = "scan"
    /\ idx <= Len(lines)
    /\ LET line == Strip(lines[idx])
           header == DetectSection(line)
           out == ScanContent(current_section, line, current_item, result)
       IN IF line = ""
          THEN /\ idx' = idx + 1
               /\ UNCHANGED <<pc, current_section, current_item, result, started>>
          ELSE IF header # ""
          THEN /\ current_section' = header
               /\ idx' = idx + 1
               /\ UNCHANGED <<pc, current_item, result, started>>
          ELSE IF out.raised
          THEN /\ pc' = "raised"
               /\ UNCHANGED <<idx, current_section, current_item, result, started>>
          ELSE /\ current_item' = out.item
               /\ result' = out.result
               /\ started' = IF out.isStart THEN started + 1 ELSE started
               /\ idx' = idx + 1
               /\ UNCHANGED <<pc, current_section>>
    /\ UNCHANGED <<lines, notParser>>

\* The code after the loop, up to "return result".
Finish ==
    /\ pc = "scan"
    /\ idx > Len(lines)
    /\ result' = RecommendationFallback(CleanSummary(
                     FlushLast(current_section, current_item, result)))
    /\ pc' = "done"
    /\ UNCHANGED <<lines, idx, current_section, current_item, started, notParser>>

NextParse == ScanLine \/ Finish

SpecParse == InitParse /\ [][NextParse]_vars

(***************************************************************************)
(* calculate_overall_risk_score: the risk score aggregator.                *)
(***************************************************************************)
\* Faulty variant: the weight of CRITICAL is written 10.
RiskScore_Typo(level) ==
    IF level = "CRITICAL" THEN 10
    ELSE IF level = "HIGH" THEN 50
    ELSE IF level = "MEDIUM" THEN 20
    ELSE IF level = "LOW" THEN 5
    ELSE IF level = "MINIMAL" THEN 0
    ELSE 20

\* risk_scores.get(level, 20)
RiskScore(level) ==
    IF level = "CRITICAL" THEN 100
    ELSE IF level = "HIGH" THEN 50
    ELSE IF level = "MEDIUM" THEN 20
    ELSE IF level = "LOW" THEN 5
    ELSE IF level = "MINIMAL" THEN 0
    ELSE 20

RECURSIVE TotalScore(_)
\* sum(risk_scores.get(risk.get('level', 'MEDIUM'), 20) for risk in risks)
TotalScore(risks) ==
    IF risks = <<>> THEN 0
    ELSE RiskScore(Head(risks).level) + TotalScore(Tail(risks))

\* Faulty variant: the average weight of the findings is classified, not the sum.
CalculateOverallRiskScore_Average(risks) ==
    IF risks = <<>> THEN "MINIMAL"
    ELSE LET total_score == TotalScore(risks) \div Len(risks) IN
         IF total_score >= 100 THEN "CRITICAL"
         ELSE IF total_score >= 50 THEN "HIGH"
         ELSE IF total_score >= 20 THEN "MEDIUM"
         ELSE IF total_score > 0 THEN "LOW"
         ELSE "MINIMAL"

CalculateOverallRiskScore(risks) ==
    IF risks = <<>> THEN "MINIMAL"
    ELSE LET total_score == TotalScore(risks) IN
         IF total_score >= 100 THEN "CRITICAL"
         ELSE IF total_score >= 50 THEN "HIGH"
         ELSE IF total_score >= 20 THEN "MEDIUM"
         ELSE IF total_score > 0 THEN "LOW"
         ELSE "MINIMAL"

\* Severity order MINIMAL < LOW < MEDIUM < HIGH < CRITICAL
Rank(level) ==
    IF level = "CRITICAL" THEN 4
    ELSE IF level = "HIGH" THEN 3
    ELSE IF level = "MEDIUM" THEN 2
    ELSE IF level = "LOW" THEN 1
    ELSE 0

InitScore ==
    /\ pc = "score"
    /\ risks_in = <<>>
    /\ overall = CalculateOverallRiskScore(<<>>)
    /\ prev_overall = overall
    /\ last_op = "init"
    /\ IdleNotScore

\* The aggregator is called on the list with one more finding.
AppendFinding ==
    /\ pc = "score"
    /\ Len(risks_in) < MaxFindings
    /\ \E l \in Levels :
          /\ risks_in' = Append(risks_in, [level |-> l])
          /\ overall' = CalculateOverallRiskScore(risks_in')
    /\ prev_overall' = overall
    /\ last_op' = "append"
    /\ UNCHANGED <<pc, notScore>>

\* The aggregator is called on the list with one finding's level raised.
RaiseLevel ==
    /\ pc = "score"
    /\ \E i \in 1..Len(risks_in) : \E l \in Levels :
          /\ Rank(l) > Rank(risks_in[i].level)
          /\ risks_in' = [risks_in EXCEPT ![i] = [level |-> l]]
          /\ overall' = CalculateOverallRiskScore(risks_in')
    /\ prev_overall' = overall
    /\ last_op' = "raise"
    /\ UNCHANGED <<pc, notScore>>

NextScore == AppendFinding \/ RaiseLevel

SpecScore == InitScore /\ [][NextScore]_vars

(***************************************************************************)
(* The automated risk detector.                                            *)
(***************************************************************************)
Finding(level, category, description, impact) ==
    [level |-> level, category |-> category, description |-> description,
     impact |-> impact]

\* Faulty variant: an empty or whitespace-only text is given no payment findings.
DetectPaymentRisks_SkipEmpty(text) ==
    IF Strip(text) = "" THEN <<>>
    ELSE <<Finding("LOW", "Payment Terms", "No detailed payment schedule",
                   "May cause confusion about when payments are due")>>

DetectPaymentRisks(text) ==
    LET text_lower == Lower(text) IN
    (IF ~Contains(text_lower, "payment") /\ ~Contains(text_lower, "fee")
     THEN <<Finding("HIGH", "Payment Terms", "No clear payment terms found",
                    "Unclear payment obligations could lead to disputes")>>
     ELSE <<>>)
    \o
    (IF ~Contains(text_lower, "late payment") /\ ~Contains(text_lower, "overdue")
     THEN <<Finding("MEDIUM", "Payment Terms", "No late payment terms specified",
                    "No protection against delayed payments")>>
     ELSE <<>>)
    \o
    (IF ~Contains(text_lower, "payment schedule") /\ ~Contains(text_lower, "installment")
     THEN <<Finding("LOW", "Payment Terms", "No detailed payment schedule",
                    "May cause confusion about when payments are due")>>
     ELSE <<>>)

DetectLiabilityRisks(text) ==
    LET text_lower == Lower(text) IN
    (IF Contains(text_lower, "liability")
     THEN IF Contains(text_lower, "unlimited liability") \/ Contains(text_lower, "no limit")
          THEN <<Finding("CRITICAL", "Liability", "Unlimited liability clause detected",
                         "Unlimited financial exposure in case of breach")>>
          ELSE IF ~Contains(text_lower, "cap") /\ ~Contains(text_lower, "limit")
          THEN <<Finding("HIGH", "Liability", "No liability cap specified",
                         "Potentially unlimited financial exposure")>>
          ELSE <<>>
     ELSE <<>>)
    \o
    (IF /\ Contains(text_lower, "indemnif")
        /\ Contains(text_lower, "indemnify")
        /\ Contains(text_lower, "hold harmless")
     THEN <<Finding("MEDIUM", "Liability", "Broad indemnification clause present",
                    "May be required to cover third-party claims")>>
     ELSE <<>>)

\* Faulty variant: the notice check does not ask for a termination clause.
DetectTerminationRisks_NoticeAlways(text) ==
    LET text_lower == Lower(text) IN
    (IF ~Contains(text_lower, "termination") /\ ~Contains(text_lower, "cancel")
     THEN <<Finding("HIGH", "Termination", "No termination clause found",
                    "Unclear how to exit the contract")>>
     ELSE <<>>)
    \o
    (IF ~Contains(text_lower, "notice")
     THEN <<Finding("MEDIUM", "Termination", "No notice period specified",
                    "Unclear how much advance notice is required")>>
     ELSE <<>>)
    \o
    (IF /\ Contains(text_lower, "early termination")
        /\ (Contains(text_lower, "penalty") \/ Contains(text_lower, "fee"))
     THEN <<Finding("MEDIUM", "Termination", "Early termination penalty exists",
                    "Cost to exit contract before term ends")>>
     ELSE <<>>)

DetectTerminationRisks(text) ==
    LET text_lower == Lower(text) IN
    (IF ~Contains(text_lower, "termination") /\ ~Contains(text_lower, "cancel")
     THEN <<Finding("HIGH", "Termination", "No termination clause found",
                    "Unclear how to exit the contract")>>
     ELSE <<>>)
    \o
    (IF ~Contains(text_lower, "notice") /\ Contains(text_lower, "termination")
     THEN <<Finding("MEDIUM", "Termination", "No notice period specified",
                    "Unclear how much advance notice is required")>>
     ELSE <<>>)
    \o
    (IF /\ Contains(text_lower, "early termination")
        /\ (Contains(text_lower, "penalty") \/ Contains(text_lower, "fee"))
     THEN <<Finding("MEDIUM", "Termination", "Early termination penalty exists",
                    "Cost to exit contract before term ends")>>
     ELSE <<>>)

\* important_clauses, in the order the dict is iterated
ImportantClauses ==
    << [clause_type |-> "Confidentiality",
        keywords |-> <<"confidential", "non-disclosure", "proprietary">>],
       [clause_type |-> "Intellectual Property",
        keywords |-> <<"intellectual property", "ip rights", "ownership">>],
       [clause_type |-> "Dispute Resolution",
        keywords |-> <<"dispute", "arbitration", "mediation">>],
       [clause_type |-> "Force Majeure", keywords |-> <<"force majeure", "act of god">>],
       [clause_type |-> "Governing Law", keywords |-> <<"governing law", "jurisdiction">>],
       [clause_type |-> "Warranties", keywords |-> <<"warrant", "guarantee">>],
       [clause_type |-> "Non-Compete", keywords |-> <<"non-compete", "non-competition">>],
       [clause_type |-> "Assignment", keywords |-> <<"assignment", "transfer of rights">>] >>

RECURSIVE AnyKeywordFound(_, _)
\* The inner loop over keywords: found = True at the first keyword in the text
AnyKeywordFound(keywords, text_lower) ==
    IF keywords = <<>> THEN FALSE
    ELSE IF Contains(text_lower, Head(keywords)) THEN TRUE
    ELSE AnyKeywordFound(Tail(keywords), text_lower)

RECURSIVE MissingAmong(_, _)
MissingAmong(clauses, text_lower) ==
    IF clauses = <<>> THEN <<>>
    ELSE (IF AnyKeywordFound(Head(clauses).keywords, text_lower) THEN <<>>
          ELSE <<Head(clauses).clause_type>>)
         \o MissingAmong(Tail(clauses), text_lower)

\* Faulty variant: the keywords are searched in the text as written, not lower-cased.
DetectMissingClauses_CaseSensitive(text) == MissingAmong(ImportantClauses, text)

DetectMissingClauses(text) == MissingAmong(ImportantClauses, Lower(text))

SeqRange(q) == {q[k] : k \in 1..Len(q)}

\* The canned recommendation strings
RecPaymentTerms ==
    "Review and clarify payment terms. Specify exact amounts, due dates, and payment methods."
RecLatePayment == "Add late payment penalty clause to protect against delayed payments."
RecLiabilityCap ==
    "Negotiate a liability cap to limit financial exposure (e.g., total fees paid in last 12 months)."
RecIndemnification == "Review and potentially limit indemnification obligations."
RecTerminationRights == "Clarify termination rights and notice periods for both parties."
RecTerminationPenalty == "Negotiate to reduce or remove early termination penalties."
RecConfidentiality ==
    "Add confidentiality clause to protect sensitive business information."
RecDisputeResolution ==
    "Include dispute resolution clause specifying arbitration or mediation process."
RecForceMajeure == "Add force majeure clause to protect against unforeseen circumstances."
RecGoverningLaw == "Specify governing law and jurisdiction for legal disputes."
RecIntellectualProperty == "Clarify intellectual property ownership and usage rights."
RecLegalProfessional ==
    "Consider having this contract reviewed by a legal professional due to high number of identified risks."

\* The recommendations list before "return recommendations[:10]"
CollectRecommendations(risks, missing_clauses) ==
    LET risk_categories == {risks[k].category : k \in 1..Len(risks)}
        missing == SeqRange(missing_clauses)
    IN
    (IF "Payment Terms" \in risk_categories
     THEN <<RecPaymentTerms, RecLatePayment>> ELSE <<>>)
    \o
    (IF "Liability" \in risk_categories
     THEN <<RecLiabilityCap, RecIndemnification>> ELSE <<>>)
    \o
    (IF "Termination" \in risk_categories
     THEN <<RecTerminationRights, RecTerminationPenalty>> ELSE <<>>)
    \o
    (IF "Confidentiality" \in missing THEN <<RecConfidentiality>> ELSE <<>>)
    \o
    (IF "Dispute Resolution" \in missing THEN <<RecDisputeResolution>> ELSE <<>>)
    \o
    (IF "Force Majeure" \in missing THEN <<RecForceMajeure>> ELSE <<>>)
    \o
    (IF "Governing Law" \in missing THEN <<RecGoverningLaw>> ELSE <<>>)
    \o
    (IF "Intellectual Property" \in missing THEN <<RecIntellectualProperty>> ELSE <<>>)
    \o
    (IF Len(risks) > 10 THEN <<RecLegalProfessional>> ELSE <<>>)

\* Faulty variant: the list is returned without the limit of 10.
GenerateAutomatedRecommendations_Uncapped(risks, missing_clauses) ==
    CollectRecommendations(risks, missing_clauses)

GenerateAutomatedRecommendations(risks, missing_clauses) ==
    LET recommendations == CollectRecommendations(risks, missing_clauses)
    IN SubSeq(recommendations, 1,
              IF Len(recommendations) < 10 THEN Len(recommendations) ELSE 10)

\* Faulty variant: the overall risk is computed before the liability and
\* termination findings are added to the list.
RunAutomatedRiskDetection_EarlyScore(text) ==
    LET all_risks == DetectPaymentRisks(text) \o DetectLiabilityRisks(text)
                       \o DetectTerminationRisks(text)
        missing == DetectMissingClauses(text)
    IN [made |-> TRUE,
        risks |-> all_risks,
        missing_clauses |-> missing,
        overall_risk |-> CalculateOverallRiskScore(DetectPaymentRisks(text)),
        risk_count |-> Len(all_risks),
        recommendations |-> GenerateAutomatedRecommendations(all_risks, missing)]

RunAutomatedRiskDetection(text) ==
    LET all_risks == DetectPaymentRisks(text) \o DetectLiabilityRisks(text)
                       \o DetectTerminationRisks(text)
        missing == DetectMissingClauses(text)
    IN [made |-> TRUE,
        risks |-> all_risks,
        missing_clauses |-> missing,
        overall_risk |-> CalculateOverallRiskScore(all_risks),
        risk_count |-> Len(all_risks),
        recommendations |-> GenerateAutomatedRecommendations(all_risks, missing)]

\* Fragments contract texts are composed of.
Fragments ==
    { "Confidential", "IP Rights", "ARBITRATION", "Force", "Majeure",
      "Governing Law", "Warranty", "Non-Compete", "Assignment",
      "Late Payment fee", "payment schedule", "Unlimited Liability",
      "Liability", "Early Termination", "notice",
      "indemnify and hold harmless" }

RECURSIVE JoinFrags(_)
JoinFrags(q) ==
    IF q = <<>> THEN ""
    ELSE IF Len(q) = 1 THEN q[1]
    ELSE q[1] \o " " \o JoinFrags(Tail(q))

\* A text in which every detector finds as much as it can
ManyFindingsText ==
    "Liability: the client shall indemnify and hold harmless. Early termination penalty."
\* The empty text, a whitespace-only text, the texts of up to MaxFrags
\* fragments, and the text of many findings
ContractTexts ==
    {JoinFrags(q) : q \in SeqsUpTo(Fragments, MaxFrags)} \cup {"   ", ManyFindingsText}

InitDetect ==
    /\ pc = "detect"
    /\ contract_text \in ContractTexts
    /\ detection = NoDetection
    /\ IdleNotDetect

\* run_automated_risk_detection(contract_text)
Detect ==
    /\ pc = "detect"
    /\ detection' = RunAutomatedRiskDetection(contract_text)
    /\ pc' = "detected"
    /\ UNCHANGED <<contract_text, notDetect>>

NextDetect == Detect

SpecDetect == InitDetect /\ [][NextDetect]_vars

(***************************************************************************)
(* generate_automated_recommendations on lists of any length.              *)
(***************************************************************************)
MaxRecRisks == 11   \* findings in a list handed to the recommender

\* The categories a risks list cycles through; "" is a finding without a
\* category, as the response parser builds them.
RiskCategories == <<"Payment Terms", "Liability", "Termination", "">>

RECURSIVE SubSequences(_)
\* All subsequences of q, order kept
SubSequences(q) ==
    IF q = <<>> THEN {<<>>}
    ELSE LET rest == SubSequences(Tail(q))
         IN rest \cup {<<Head(q)>> \o r : r \in rest}

\* A list of n findings whose categories repeat the pattern
RisksOfPattern(pattern, n) ==
    [k \in 1..n |-> Finding("MEDIUM", pattern[((k - 1) % Len(pattern)) + 1],
                            "A finding", "An impact")]

ClauseTypes == [c \in 1..Len(ImportantClauses) |-> ImportantClauses[c].clause_type]

InitRecommend ==
    /\ pc = "recommend"
    /\ \E pattern \in SubSequences(RiskCategories) \ {<<>>} : \E n \in 0..MaxRecRisks :
          rec_risks = RisksOfPattern(pattern, n)
    /\ rec_missing \in SubSequences(ClauseTypes)
    /\ rec_out = <<>>
    /\ IdleNotRec

\* generate_automated_recommendations(risks, missing_clauses)
Recommend ==
    /\ pc = "recommend"
    /\ rec_out' = GenerateAutomatedRecommendations(rec_risks, rec_missing)
    /\ pc' = "recommended"
    /\ UNCHANGED <<rec_risks, rec_missing, notRec>>

NextRecommend == Recommend

SpecRecommend == InitRecommend /\ [][NextRecommend]_vars

(***************************************************************************)
(* The rule-based comparison of two analyses, create_automated_comparison  *)
(* of modules/contract_comparator.py.  An analysis dict is a record whose   *)
(* fields are its keys; the comparator reads it only through .get.         *)
(***************************************************************************)
MaxCmpRisks == 2    \* findings in an analysis handed to the comparator

\* d.get(key, default) for the three keys the comparator reads
GetOverallRisk(analysis, default) ==
    IF "overall_risk" \in DOMAIN analysis THEN analysis.overall_risk ELSE default
GetRisks(analysis) == IF "risks" \in DOMAIN analysis THEN analysis.risks ELSE <<>>
GetMissingClauses(analysis) ==
    IF "missing_clauses" \in DOMAIN analysis THEN analysis.missing_clauses ELSE <<>>

\* count_risks_by_level: a dict from the levels that occur to their counts
RiskLevelOf(risk) ==
    IF "keys" \in DOMAIN risk /\ "level" \notin risk.keys THEN "MEDIUM" ELSE risk.level
CountRisksByLevel(risks) ==
    [lv \in {RiskLevelOf(risks[k]) : k \in 1..Len(risks)} |->
        Cardinality({k \in 1..Len(risks) : RiskLevelOf(risks[k]) = lv})]

\* calculate_risk_score: scores.get(risk_level, 50)
CalculateRiskScore(risk_level) ==
    CASE risk_level = "CRITICAL" -> 100
      [] risk_level = "HIGH" -> 75
      [] risk_level = "MEDIUM" -> 50
      [] risk_level = "LOW" -> 25
      [] risk_level = "MINIMAL" -> 10
      [] OTHER -> 50

\* Faulty variant: a tie of the scores is broken by the number of findings.
BetterContract_CountTieBreak(a1, a2) ==
    LET risk1_score == CalculateRiskScore(GetOverallRisk(a1, "MEDIUM"))
        risk2_score == CalculateRiskScore(GetOverallRisk(a2, "MEDIUM"))
    IN IF risk1_score < risk2_score THEN "CONTRACT1"
       ELSE IF risk2_score < risk1_score THEN "CONTRACT2"
       ELSE IF Len(GetRisks(a1)) < Len(GetRisks(a2)) THEN "CONTRACT1"
       ELSE IF Len(GetRisks(a2)) < Len(GetRisks(a1)) THEN "CONTRACT2"
       ELSE "NEUTRAL"
\* better_contract
BetterContract(a1, a2) ==
    LET risk1_score == CalculateRiskScore(GetOverallRisk(a1, "MEDIUM"))
        risk2_score == CalculateRiskScore(GetOverallRisk(a2, "MEDIUM"))
    IN IF risk1_score < risk2_score THEN "CONTRACT1"
       ELSE IF risk2_score < risk1_score THEN "CONTRACT2"
       ELSE "NEUTRAL"

\* Faulty variant: the clauses contract 1 lacks and contract 2 has.
UniqueTo1_OwnMissing(a1, a2) ==
    SeqRange(GetMissingClauses(a1)) \ SeqRange(GetMissingClauses(a2))
\* unique_to_1 = list(missing2 - missing1); the list of a set has no fixed
\* order, so the model keeps the set.
UniqueTo1(a1, a2) ==
    SeqRange(GetMissingClauses(a2)) \ SeqRange(GetMissingClauses(a1))
\* unique_to_2 = list(missing1 - missing2)
UniqueTo2(a1, a2) ==
    SeqRange(GetMissingClauses(a1)) \ SeqRange(GetMissingClauses(a2))

\* generate_automated_recommendation
GenerateAutomatedRecommendation(better) ==
    IF better = "CONTRACT1"
    THEN "Contract 1 appears more favorable with lower overall risk. Consider using Contract 1 as the base for negotiations."
    ELSE IF better = "CONTRACT2"
    THEN "Contract 2 appears more favorable with lower overall risk. Consider using Contract 2 as the base for negotiations."
    ELSE "Both contracts have similar risk profiles. Review specific clauses to determine which terms are more favorable for your situation."

CreateAutomatedComparison(a1, a2) ==
    [contract1_risk |-> GetOverallRisk(a1, "UNKNOWN"),
     contract2_risk |-> GetOverallRisk(a2, "UNKNOWN"),
     contract1_risk_count |-> Len(GetRisks(a1)),
     contract2_risk_count |-> Len(GetRisks(a2)),
     contract1_missing_count |-> Len(GetMissingClauses(a1)),
     contract2_missing_count |-> Len(GetMissingClauses(a2)),
     contract1_risks_by_level |-> CountRisksByLevel(GetRisks(a1)),
     contract2_risks_by_level |-> CountRisksByLevel(GetRisks(a2)),
     better_contract |-> BetterContract(a1, a2),
     unique_to_contract1 |-> UniqueTo1(a1, a2),
     unique_to_contract2 |-> UniqueTo2(a1, a2),
     key_differences |-> <<>>,
     recommendation |-> GenerateAutomatedRecommendation(BetterContract(a1, a2)),
     ai_comparison |-> FALSE]

\* The analyses handed in: with or without an overall_risk key, a label of
\* the table or the parser's initial 'UNKNOWN', up to MaxCmpRisks findings of
\* one level, and a missing-clause list over three clause types.
ComparedClauses == <<"Force Majeure", "Governing Law", "Warranties">>
Analyses ==
    { [overall_risk |-> o, risks |-> r, missing_clauses |-> m] :
        o \in Levels \cup {"UNKNOWN"},
        r \in { [k \in 1..n |-> Finding(lv, "Liability", "A finding", "An impact")] :
                    lv \in {"HIGH", "LOW"}, n \in 0..MaxCmpRisks },
        m \in SubSequences(ComparedClauses) }
    \cup
    { [risks |-> <<>>, missing_clauses |-> m] : m \in SubSequences(ComparedClauses) }
    \cup
    { [summary |-> ""] }

InitCompare ==
    /\ pc = "compare"
    /\ \E a1 \in Analyses, a2 \in Analyses :
          contract1_analysis = <<a1>> /\ contract2_analysis = <<a2>>
    /\ comparison = <<>>
    /\ IdleNotCompare

Compare ==
    /\ pc = "compare"
    /\ comparison' =
          <<CreateAutomatedComparison(contract1_analysis[1], contract2_analysis[1])>>
    /\ pc' = "compared"
    /\ UNCHANGED <<contract1_analysis, contract2_analysis, notCompare>>

NextCompare == Compare
SpecCompare == InitCompare /\ [][NextCompare]_vars

(***************************************************************************)
(* The functions that call the completion backend: analyze_contract and    *)
(* get_quick_summary of modules/contract_analyzer.py, extract_clause_with_ai*)
(* of modules/clause_finder.py and compare_contracts of                    *)
(* modules/contract_comparator.py.  A text is the sequence of its lines.   *)
(* What client.messages.create does lies outside the program: it raises,   *)
(* or it answers with a text.                                              *)
(***************************************************************************)
\* parse_analysis_response as a function of the lines of response_text: the
\* for loop from line i on, then the code after the loop.
RECURSIVE ParseLoop(_, _, _, _, _)
ParseLoop(ls, i, section, item, res) ==
    IF i > Len(ls)
    THEN [raised |-> FALSE,
          result |-> RecommendationFallback(CleanSummary(FlushLast(section, item, res)))]
    ELSE LET line == Strip(ls[i])
             header == DetectSection(line)
             out == ScanContent(section, line, item, res)
         IN IF line = "" THEN ParseLoop(ls, i + 1, section, item, res)
            ELSE IF header # "" THEN ParseLoop(ls, i + 1, header, item, res)
            ELSE IF out.raised THEN [raised |-> TRUE, result |-> res]
            ELSE ParseLoop(ls, i + 1, section, out.item, out.result)
ParseAnalysisResponse(ls) == ParseLoop(ls, 1, "none", EmptyItem, InitialResult)

\* How a call ends: an exception leaves the function (raised), or it returns
\* None (value = <<>>) or the value v (value = <<v>>).
ReturnNone == [raised |-> FALSE, value |-> <<>>]
Return(v) == [raised |-> FALSE, value |-> <<v>>]

\* Faulty variant: a backend error is answered with the parse of an empty text.
AnalyzeContract_EmptyParse(key, outcome) ==
    IF key = "" THEN ReturnNone
    ELSE IF outcome.raises
    THEN Return(ParseAnalysisResponse(<<>>).result @@ [raw_response |-> <<>>])
    ELSE IF ParseAnalysisResponse(outcome.text).raised THEN ReturnNone
    ELSE Return(ParseAnalysisResponse(outcome.text).result @@ [raw_response |-> outcome.text])
\* analyze_contract; the dict returned is the parser's dict with the key
\* raw_response added.
AnalyzeContract(key, outcome) ==
    LET parsed == ParseAnalysisResponse(outcome.text) IN
    IF key = "" THEN ReturnNone
    ELSE IF outcome.raises THEN ReturnNone
    ELSE IF parsed.raised THEN ReturnNone
    ELSE Return(parsed.result @@ [raw_response |-> outcome.text])

\* get_quick_summary
GetQuickSummary(key, outcome) ==
    IF outcome.raises THEN ReturnNone ELSE Return(outcome.text)

\* 'not found' not in analysis.lower()
ClauseFound(analysis) ==
    \A k \in 1..Len(analysis) : ~Contains(Lower(analysis[k]), "not found")

\* extract_clause_with_ai
ExtractClauseWithAi(clause_type, key, outcome) ==
    IF key = "" THEN ReturnNone
    ELSE IF outcome.raises THEN ReturnNone
    ELSE Return([clause_type |-> clause_type, analysis |-> outcome.text,
                 found |-> ClauseFound(outcome.text)])

\* line.strip().lstrip('- ')
StripDashes(line) == LStripSet(Strip(line), {"-", " "})

\* The for loop of extract_key_differences from line i on
RECURSIVE KeyDifferencesLoop(_, _, _, _)
KeyDifferencesLoop(ls, i, in_section, differences) ==
    IF i > Len(ls) THEN differences
    ELSE IF Contains(Upper(ls[i]), "KEY DIFFERENCES")
    THEN KeyDifferencesLoop(ls, i + 1, TRUE, differences)
    ELSE IF in_section /\ StartsWith(Strip(ls[i]), "-")
    THEN KeyDifferencesLoop(ls, i + 1, in_section, Append(differences, StripDashes(ls[i])))
    ELSE IF in_section /\ Strip(ls[i]) = "" THEN differences
    ELSE KeyDifferencesLoop(ls, i + 1, in_section, differences)
\* extract_key_differences
ExtractKeyDifferences(ls) ==
    LET differences == KeyDifferencesLoop(ls, 1, FALSE, <<>>)
    IN SubSeq(differences, 1, IF Len(differences) < 10 THEN Len(differences) ELSE 10)

\* ' '.join(rec_text)
RECURSIVE JoinSpace(_)
JoinSpace(q) ==
    IF q = <<>> THEN ""
    ELSE IF Len(q) = 1 THEN q[1]
    ELSE q[1] \o " " \o JoinSpace(Tail(q))

\* The for loop of extract_recommendation from line i on
RECURSIVE RecommendationLoop(_, _, _, _)
RecommendationLoop(ls, i, in_section, rec_text) ==
    IF i > Len(ls) THEN rec_text
    ELSE IF Contains(Upper(ls[i]), "RECOMMENDATION")
    THEN RecommendationLoop(ls, i + 1, TRUE, rec_text)
    ELSE IF in_section
    THEN IF Strip(ls[i]) # ""
         THEN RecommendationLoop(ls, i + 1, in_section, Append(rec_text, Strip(ls[i])))
         ELSE rec_text
    ELSE RecommendationLoop(ls, i + 1, in_section, rec_text)
\* extract_recommendation
ExtractRecommendation(ls) == JoinSpace(RecommendationLoop(ls, 1, FALSE, <<>>))

\* The dict compare_contracts returns when the backend answered
AiComparison(a1, a2, comparison_text) ==
    [CreateAutomatedComparison(a1, a2) EXCEPT
        !.ai_comparison = TRUE,
        !.key_differences = ExtractKeyDifferences(comparison_text),
        !.recommendation = ExtractRecommendation(comparison_text)]
    @@ [full_analysis |-> comparison_text]

\* compare_contracts
CompareContracts(a1, a2, key, outcome) ==
    IF key = "" THEN Return(CreateAutomatedComparison(a1, a2))
    ELSE IF outcome.raises THEN Return(CreateAutomatedComparison(a1, a2))
    ELSE Return(AiComparison(a1, a2, outcome.text))

\* Texts the backend answers with: an analysis in the prompt's format, an
\* analysis the parser raises on, a comparison, and a clause report.
BackendTexts ==
    { <<"1. EXECUTIVE SUMMARY", "Fair deal. Overall Risk: LOW", "4. RED FLAGS",
        "- No liability cap">>,
      <<"## 3. RISK ASSESSMENT", "- Risk Level: HIGH", "Fees are due late">>,
      <<"KEY DIFFERENCES", "- Contract 2 caps liability", "", "RECOMMENDATION",
        "Choose contract 2", "", "Other notes">>,
      <<"The clause was not found in the contract">> }
BackendOutcomes ==
    {[raises |-> TRUE, text |-> <<>>]} \cup
    {[raises |-> FALSE, text |-> t] : t \in BackendTexts}

\* The analyses handed to compare_contracts
ComparedAnalyses ==
    { [overall_risk |-> o, risks |-> <<>>, missing_clauses |-> m] :
        o \in {"HIGH", "LOW"}, m \in {<<>>, <<"Force Majeure">>} }

notAi == <<parserVars, scoreVars, detectVars, recVars, appVars, clauseVars, sessionVars>>
IdleNotAi ==
    IdleParser /\ IdleScore /\ IdleDetect /\ IdleRec /\ IdleApp /\ IdleClause /\ IdleSession

InitAi ==
    /\ pc = "call"
    /\ api_key \in {"", "sk-key"}
    /\ backend \in BackendOutcomes
    /\ \E a1 \in ComparedAnalyses, a2 \in ComparedAnalyses :
          contract1_analysis = <<a1>> /\ contract2_analysis = <<a2>>
    /\ comparison = <<>>
    /\ called = ""
    /\ returned = NotReturned
    /\ IdleNotAi

\* The end of a call of function fn with outcome ret
EndCall(fn, ret) ==
    /\ pc = "call"
    /\ called' = fn
    /\ returned' = ret
    /\ pc' = IF ret.raised THEN "raised" ELSE "returned"
    /\ UNCHANGED <<api_key, backend, compareVars, notAi>>

CallAnalyzeContract == EndCall("analyze_contract", AnalyzeContract(api_key, backend))
CallGetQuickSummary == EndCall("get_quick_summary", GetQuickSummary(api_key, backend))
CallExtractClauseWithAi ==
    \E clause_type \in {"payment", "liability"} :
        EndCall("extract_clause_with_ai", ExtractClauseWithAi(clause_type, api_key, backend))
CallCompareContracts ==
    EndCall("compare_contracts",
            CompareContracts(contract1_analysis[1], contract2_analysis[1], api_key, backend))

NextAi ==
    \/ CallAnalyzeContract
    \/ CallGetQuickSummary
    \/ CallExtractClauseWithAi
    \/ CallCompareContracts
SpecAi == InitAi /\ [][NextAi]_vars

(***************************************************************************)
(* Contract texts of the application.  validate_contract_text accepts      *)
(* texts of 500 to 500000 characters, so a text is kept as a record        *)
(* [body, pad]: the string body followed by pad copies of the character    *)
(* Filler.  No keyword that any detector or clause finder looks for        *)
(* contains Filler, so a keyword occurs in the text iff it occurs in body. *)
(***************************************************************************)
Filler == "x"
Text(body, pad) == [body |-> body, pad |-> pad]
\* len(text)
TextLen(t) == Len(t.body) + t.pad

\* s.split(sep)
RECURSIVE Split(_, _)
Split(s, sep) ==
    IF Contains(s, sep)
    THEN LET p == FindFirst(s, sep)
         IN <<SubSeq(s, 1, p - 1)>> \o Split(SubSeq(s, p + Len(sep), Len(s)), sep)
    ELSE <<s>>

\* sep.join(q)
RECURSIVE Join(_, _)
Join(q, sep) ==
    IF q = <<>> THEN ""
    ELSE IF Len(q) = 1 THEN q[1]
    ELSE q[1] \o sep \o Join(Tail(q), sep)

\* re.sub(r' +', ' ', s)
RECURSIVE CollapseSpaces(_)
CollapseSpaces(s) ==
    IF Len(s) < 2 THEN s
    ELSE IF CharAt(s, 1) = " " /\ CharAt(s, 2) = " " THEN CollapseSpaces(Tail(s))
    ELSE SubSeq(s, 1, 1) \o CollapseSpaces(Tail(s))

\* clean_text of a string
CleanTextStr(s) ==
    LET stripped == [k \in 1..Len(Split(s, "\n")) |-> Strip(Split(s, "\n")[k])]
        kept == SelectSeq(stripped, LAMBDA line : line # "")
    IN CollapseSpaces(Join(kept, "\n"))

\* clean_text of a text: the filler characters follow the body on its last
\* line and are neither stripped nor collapsed.
CleanText(t) ==
    IF t.pad = 0 THEN Text(CleanTextStr(t.body), 0)
    ELSE LET c == CleanTextStr(t.body \o Filler)
         IN Text(SubSeq(c, 1, Len(c) - 1), t.pad)

\* text.strip() == '' for a text of spaces and newlines
IsBlank(t) == t.pad = 0 /\ LStripSet(t.body, {" ", "\n"}) = ""

\* The limits of validate_contract_text: "len(text) < 500", "len(text) > 500000"
MinContractChars == 500
MaxContractChars == 500000

\* Faulty variant: no maximum length.
ValidateContractText_NoMaximum(t) ==
    IF TextLen(t) = 0 \/ IsBlank(t)
    THEN [is_valid |-> FALSE, error |-> "Contract appears to be empty"]
    ELSE IF TextLen(t) < MinContractChars
    THEN [is_valid |-> FALSE,
          error |-> "Contract text is too short. This might not be a complete contract."]
    ELSE [is_valid |-> TRUE, error |-> ""]
\* validate_contract_text: the pair (is_valid, error_message)
ValidateContractText(t) ==
    IF TextLen(t) = 0 \/ IsBlank(t)
    THEN [is_valid |-> FALSE, error |-> "Contract appears to be empty"]
    ELSE IF TextLen(t) < MinContractChars
    THEN [is_valid |-> FALSE,
          error |-> "Contract text is too short. This might not be a complete contract."]
    ELSE IF TextLen(t) > MaxContractChars
    THEN [is_valid |-> FALSE,
          error |-> "Contract text is too long. Please upload a shorter document."]
    ELSE [is_valid |-> TRUE, error |-> ""]

(***************************************************************************)
(* modules/clause_finder.py: the analysis of one clause type.              *)
(***************************************************************************)
\* clause_keywords.get(clause_type, [])
ClauseKeywords(clause_type) ==
    CASE clause_type = "Payment Terms" -> <<"payment", "fee", "compensation", "invoice">>
      [] clause_type = "Liability" -> <<"liability", "liable", "responsible for">>
      [] clause_type = "Termination" -> <<"termination", "terminate", "cancel">>
      [] clause_type = "Confidentiality" -> <<"confidential", "non-disclosure", "proprietary">>
      [] clause_type = "Intellectual Property" ->
            <<"intellectual property", "ip", "copyright", "patent">>
      [] clause_type = "Warranties" -> <<"warrant", "guarantee", "representation">>
      [] clause_type = "Indemnification" -> <<"indemnif", "hold harmless">>
      [] clause_type = "Dispute Resolution" -> <<"dispute", "arbitration", "mediation">>
      [] clause_type = "Force Majeure" -> <<"force majeure", "act of god">>
      [] clause_type = "Governing Law" -> <<"governing law", "jurisdiction">>
      [] OTHER -> <<>>

\* Some keyword of the clause type occurs in para.lower()
ParagraphMatches(para, clause_type) ==
    \E k \in 1..Len(ClauseKeywords(clause_type)) :
        Contains(Lower(para), ClauseKeywords(clause_type)[k])

\* find_clause_by_keyword: <<>> for None, else <<the matching paragraphs>>.
\* The filler characters belong to the last paragraph.
FindClauseByKeyword(t, clause_type) ==
    LET paragraphs == Split(t.body, "\n\n")
        matching_paragraphs ==
            SelectSeq(paragraphs, LAMBDA para : ParagraphMatches(para, clause_type))
        lastMatches == ParagraphMatches(paragraphs[Len(paragraphs)], clause_type)
    IN IF matching_paragraphs # <<>>
       THEN <<Text(Join(matching_paragraphs, "\n\n"), IF lastMatches THEN t.pad ELSE 0)>>
       ELSE <<>>

\* The first of the names in order that occurs in s, or dflt
FirstNameIn(order, s, dflt) ==
    IF \E k \in 1..Len(order) : Contains(s, order[k])
    THEN order[CHOOSE k \in 1..Len(order) :
                  /\ Contains(s, order[k])
                  /\ \A j \in 1..(k - 1) : ~Contains(s, order[j])]
    ELSE dflt

\* The for loop of parse_clause_analysis from line i on
RECURSIVE ClauseLoop(_, _, _, _)
ClauseLoop(ls, i, in_section, res) ==
    IF i > Len(ls) THEN res
    ELSE
    LET line == Strip(ls[i])
        up == Upper(line)
    IN
    IF Contains(up, "CLAUSE TEXT:") THEN ClauseLoop(ls, i + 1, "clause_text", res)
    ELSE IF Contains(up, "LOCATION:") THEN ClauseLoop(ls, i + 1, "location", res)
    ELSE IF Contains(up, "PLAIN LANGUAGE") \/ Contains(up, "SUMMARY:")
    THEN ClauseLoop(ls, i + 1, "summary", res)
    ELSE IF Contains(up, "RISK LEVEL:")
    THEN ClauseLoop(ls, i + 1, in_section,
                    [res EXCEPT !.risk_level = FirstNameIn(RiskOrder, up, @)])
    ELSE IF Contains(up, "SPECIFIC RISKS:") \/ Contains(up, "RISKS:")
    THEN ClauseLoop(ls, i + 1, "risks", res)
    ELSE IF Contains(up, "FAVORABILITY:")
    THEN ClauseLoop(ls, i + 1, "favorability",
                    [res EXCEPT !.favorability =
                        FirstNameIn(<<"FAVORABLE", "UNFAVORABLE", "NEUTRAL">>, up, @)])
    ELSE IF Contains(up, "RECOMMENDATIONS:")
    THEN ClauseLoop(ls, i + 1, "recommendations", res)
    ELSE IF in_section = "" \/ line = ""
    THEN ClauseLoop(ls, i + 1, in_section, res)
    ELSE IF in_section = "clause_text"
    THEN ClauseLoop(ls, i + 1, in_section,
                    [res EXCEPT !.clause_text = @ \o line \o "\n"])
    ELSE IF in_section = "location"
    THEN ClauseLoop(ls, i + 1, in_section, [res EXCEPT !.location = @ \o line \o " "])
    ELSE IF in_section = "summary"
    THEN ClauseLoop(ls, i + 1, in_section, [res EXCEPT !.summary = @ \o line \o " "])
    ELSE IF in_section = "risks"
    THEN ClauseLoop(ls, i + 1, in_section,
                    IF StartsWith(line, "-") \/ StartsWith(line, Bullet)
                    THEN [res EXCEPT !.risks = Append(@, LStripSet(line, {"-", Bullet, " "}))]
                    ELSE res)
    ELSE IF in_section = "recommendations"
    THEN ClauseLoop(ls, i + 1, in_section,
                    IF StartsWith(line, "-") \/ StartsWith(line, Bullet)
                       \/ CharAt(line, 1) \in Digits
                    THEN [res EXCEPT !.recommendations =
                            Append(@, LStripSet(line, {"-", Bullet, ".", " "} \cup Digits))]
                    ELSE res)
    ELSE ClauseLoop(ls, i + 1, in_section, res)

\* parse_clause_analysis of the lines of analysis_text
ParseClauseAnalysis(ls, clause_type) ==
    LET initial ==
            [found |-> \E k \in 1..Len(ls) :
                           \/ Contains(ls[k], "CLAUSE FOUND: Yes")
                           \/ Contains(Lower(ls[k]), "found: yes"),
             clause_type |-> clause_type, clause_text |-> "", location |-> "",
             summary |-> "", risk_level |-> "UNKNOWN", risks |-> <<>>,
             favorability |-> "NEUTRAL", recommendations |-> <<>>, analysis |-> ls]
        res == ClauseLoop(ls, 1, "", initial)
    IN [res EXCEPT !.clause_text = LStripSet(RStripSet(@, {" ", "\n"}), {" ", "\n"}),
                   !.location = Strip(@),
                   !.summary = Strip(@)]

\* analyze_specific_clause; key is "" when the caller passes no API key
AnalyzeSpecificClause(t, clause_type, key, outcome) ==
    LET clause_text == FindClauseByKeyword(t, clause_type) IN
    IF key = ""
    THEN IF clause_text # <<>>
         THEN [found |-> TRUE, clause_type |-> clause_type,
               clause_text |-> clause_text,
               location |-> "Found via keyword matching",
               summary |-> "AI analysis unavailable - API key required",
               risk_level |-> "UNKNOWN", risks |-> <<>>, favorability |-> "NEUTRAL",
               recommendations |-> <<>>,
               analysis |-> <<"Configure API key for detailed AI analysis">>]
         ELSE [found |-> FALSE, clause_type |-> clause_type,
               analysis |-> <<"No " \o clause_type
                              \o " clause found. This is a significant gap in the contract.">>]
    ELSE IF outcome.raises
    THEN [found |-> FALSE, clause_type |-> clause_type,
          analysis |-> <<"Analysis failed: backend error">>]
    ELSE ParseClauseAnalysis(outcome.text, clause_type) @@ [raw_analysis |-> outcome.text]

(***************************************************************************)
(* app.py: the Streamlit script.  Every user interaction reruns the whole  *)
(* script on the session state and the widget values.  A script run is a   *)
(* function of them, of the button clicked and of what the backend does;   *)
(* it is composed of the stages below in the order of the script.          *)
(***************************************************************************)
\* An uploaded file: its name and what extract_text gives for it, the pair
\* (text, error) with error "" for None.
UploadedFile(name, text, error) == [name |-> name, text |-> text, error |-> error]
\* A file whose text has n characters after clean_text
FileOfCleanLength(name, body, n) ==
    UploadedFile(name, Text(body, n - Len(CleanText(Text(body, 1)).body)), "")

FileA == FileOfCleanLength("a.pdf",
                           "Payment  is due in 30 days.\n\n The liability is unlimited.  ",
                           MaxContractChars)
FileB == FileOfCleanLength("b.docx", "Termination with notice. Confidential.", MinContractChars)
FileShort == FileOfCleanLength("short.pdf", "Payment of a fee. ", MinContractChars - 1)
FileLong == FileOfCleanLength("long.pdf", "Payment of a fee. ", MaxContractChars + 1)
FileBlank == UploadedFile("blank.pdf", Text("  \n ", 0), "")
FileUnreadable == UploadedFile("scan.doc", Text("", 0), "Unsupported file type: .doc")

\* The files the user has for each uploader
SingleFiles == {FileA, FileB, FileShort, FileBlank}
Contract1Files == {FileA, FileUnreadable}
Contract2Files == {FileB, FileLong}
\* The clause types the user picks among, of CLAUSE_TYPES
ClauseChoices == {"Payment Terms"}
\* What the backend does on a call made by the application
AppOutcomes ==
    { [raises |-> TRUE, text |-> <<>>],
      [raises |-> FALSE,
       text |-> <<"1. EXECUTIVE SUMMARY", "Fair deal. Overall Risk: LOW", "4. RED FLAGS",
                  "- No liability cap">>] }

\* An analysis step of a script run: the function called and the text it is
\* called on.
Step(fn, t) == [fn |-> fn, text |-> t]
\* The state of a script run: the session, the place where st.stop() ended
\* the run ("" while it runs), the analysis steps made, and whether
\* analyze_contract returned None for the first contract.
Ran(sess, stopped, steps, ai_failed) ==
    [session |-> sess, stopped |-> stopped, steps |-> steps, ai_failed |-> ai_failed]
Stop(ran, place) == [ran EXCEPT !.stopped = place]

\* Lines 41-54: init_session and the sidebar; cm is the comparison checkbox
Sidebar(sess, cm) ==
    Ran([sess EXCEPT !.language = "en", !.number_format = "international",
                     !.comparison_mode = cm],
        "", {}, FALSE)

\* Lines 57-107: the upload section
UploadSection(ran, w) ==
    IF ran.session.comparison_mode
    THEN IF w.contract1_uploader = <<>> \/ w.contract2_uploader = <<>>
         THEN Stop(ran, "upload")
         ELSE [ran EXCEPT !.session.contract1_file = w.contract1_uploader,
                          !.session.contract2_file = w.contract2_uploader]
    ELSE IF w.single_contract_uploader = <<>>
         THEN Stop(ran, "upload")
         ELSE [ran EXCEPT !.session.contract1_file = w.single_contract_uploader]

\* Lines 111-131: extraction, cleaning and validation of the first contract
ProcessFirst(ran) ==
    IF ran.stopped # "" THEN ran
    ELSE LET file1 == ran.session.contract1_file[1]
             contract1_text == CleanText(file1.text)
         IN IF file1.error # "" THEN Stop(ran, "extract1")
            ELSE IF ~ValidateContractText(contract1_text).is_valid
            THEN Stop(ran, "validate1")
            ELSE [ran EXCEPT !.session.contract_text = <<contract1_text>>,
                             !.session.contract_filename = <<file1.name>>,
                             !.session.contract_uploaded = TRUE]

\* Lines 134-157: the second contract is processed in comparison mode
ProcessSecond(ran) ==
    IF ran.stopped # "" \/ ~ran.session.comparison_mode THEN ran
    ELSE LET file2 == ran.session.contract2_file[1]
             contract2_text == CleanText(file2.text)
         IN IF file2.error # "" THEN Stop(ran, "extract2")
            ELSE IF ~ValidateContractText(contract2_text).is_valid
            THEN Stop(ran, "validate2")
            ELSE [ran EXCEPT !.session.contract2_text = <<contract2_text>>,
                             !.session.contract2_filename = <<file2.name>>]

\* Lines 111-157: the processing of the uploaded files
ProcessFiles(ran) == ProcessSecond(ProcessFirst(ran))

\* for item in extra: if item not in base: base.append(item)
RECURSIVE AppendNew(_, _)
AppendNew(base, extra) ==
    IF extra = <<>> THEN base
    ELSE AppendNew(IF \E k \in 1..Len(base) : base[k] = Head(extra)
                   THEN base ELSE Append(base, Head(extra)),
                   Tail(extra))

\* Lines 221-226: automated recommendations are added to fewer than 3
MergeRecommendations(analysis, automated) ==
    IF Len(analysis.recommendations) < 3
    THEN [analysis EXCEPT !.recommendations = AppendNew(@, automated.recommendations)]
    ELSE analysis

\* Faulty variant: the merge takes the detector's overall risk.
MergeAutomated_Recompute(analysis, automated) ==
    MergeRecommendations(
        [analysis EXCEPT
            !.risks = IF automated.risks # <<>> THEN @ \o automated.risks ELSE @,
            !.missing_clauses = AppendNew(@, automated.missing_clauses),
            !.overall_risk = automated.overall_risk],
        automated)

\* Lines 209-226: the detector's output is merged into the AI analysis
MergeAutomated(analysis, automated) ==
    MergeRecommendations(
        [analysis EXCEPT
            !.risks = IF automated.risks # <<>> THEN @ \o automated.risks ELSE @,
            !.missing_clauses = AppendNew(@, automated.missing_clauses)],
        automated)

\* Lines 234-243 and 275-284: the dict stored for a rule-based analysis
RuleBasedResults(summary, automated) ==
    [summary |-> summary, overall_risk |-> automated.overall_risk,
     risks |-> automated.risks, red_flags |-> <<>>,
     missing_clauses |-> automated.missing_clauses, key_terms |-> <<>>,
     recommendations |-> automated.recommendations]

\* Lines 184-198: analysis_type == 'quick'
QuickSummary(ran, key, o1) ==
    IF key # ""
    THEN [ran EXCEPT
            !.session.analysis_results =
                <<[summary |-> GetQuickSummary(key, o1).value, overall_risk |-> "UNKNOWN",
                   risks |-> <<>>, red_flags |-> <<>>, missing_clauses |-> <<>>,
                   recommendations |-> <<>>]>>,
            !.steps = @ \cup {Step("get_quick_summary", ran.session.contract_text[1])}]
    ELSE Stop(ran, "quick_requires_ai")

\* Lines 203-243 and 250-284: the analysis of the contract text t, given what
\* analyze_contract returns for it and what the detector finds in it: the
\* dict to store, <<>> when the AI analysis failed, and the steps made.  The
\* detector runs only when its output is used.
OneAnalysis(t, key, analysis, automated, summary) ==
    IF key # ""
    THEN IF analysis.value # <<>>
         THEN [results |-> <<MergeAutomated(analysis.value[1], automated)>>,
               steps |-> {Step("analyze_contract", t),
                          Step("run_automated_risk_detection", t)}]
         ELSE [results |-> <<>>, steps |-> {Step("analyze_contract", t)}]
    ELSE [results |-> <<RuleBasedResults(summary, automated)>>,
          steps |-> {Step("run_automated_risk_detection", t)}]
AnalyzeOne(t, key, outcome, summary) ==
    OneAnalysis(t, key, AnalyzeContract(key, outcome), RunAutomatedRiskDetection(t.body),
                summary)

\* Lines 227-231: the analysis of the first contract is stored, or the run stops
StoreFirst(ran, one) ==
    IF one.results # <<>>
    THEN [ran EXCEPT !.session.analysis_results = one.results,
                     !.steps = @ \cup one.steps]
    ELSE [ran EXCEPT !.stopped = "ai_failed", !.steps = @ \cup one.steps,
                     !.ai_failed = TRUE]
\* Lines 201-243: the analysis of the first contract
AnalyzeFirst(ran, key, o1) ==
    StoreFirst(ran, AnalyzeOne(ran.session.contract_text[1], key, o1,
                   "Automated rule-based analysis (AI analysis requires API key)"))

\* Lines 273-276: the analysis of the second contract is stored, or the run stops
StoreSecond(ran, one) ==
    IF one.results # <<>>
    THEN [ran EXCEPT !.session.analysis2_results = one.results,
                     !.steps = @ \cup one.steps]
    ELSE [ran EXCEPT !.stopped = "ai2_failed", !.steps = @ \cup one.steps]

\* Lines 289-301: the comparison of the two analysed contracts
CompareSection(ran, key, o3) ==
    IF ran.stopped # "" THEN ran
    ELSE [ran EXCEPT
            !.session.comparison_results =
                CompareContracts(ran.session.analysis_results[1],
                                 ran.session.analysis2_results[1], key, o3).value,
            !.steps = @ \cup {Step("compare_contracts", ran.session.contract_text[1]),
                              Step("compare_contracts", ran.session.contract2_text[1])}]

\* Lines 246-301: the analysis of the second contract and the comparison
AnalyzeSecond(ran, key, o2, o3) ==
    IF \/ ran.stopped # ""
       \/ ~ran.session.comparison_mode
       \/ ran.session.contract2_text = <<>>
    THEN ran
    ELSE CompareSection(
            StoreSecond(ran, AnalyzeOne(ran.session.contract2_text[1], key, o2,
                                        "Automated rule-based analysis")),
            key, o3)

\* Lines 200-300: analysis_type == 'full'
FullAnalysis(ran, key, o1, o2, o3) == AnalyzeSecond(AnalyzeFirst(ran, key, o1), key, o2, o3)

\* Lines 302-315: the analysis of one clause type
SpecificClause(ran, w, key, o1) ==
    [ran EXCEPT
        !.session.clause_results =
            <<AnalyzeSpecificClause(ran.session.contract_text[1], w.clause_type, key, o1)>>,
        !.steps = @ \cup {Step("analyze_specific_clause", ran.session.contract_text[1])}]

\* Line 317: analysis_complete is set when no branch has stopped the run
Complete(ran) ==
    IF ran.stopped # "" THEN ran ELSE [ran EXCEPT !.session.analysis_complete = TRUE]

\* Lines 181-318: the body of the analyze button
AnalyzeButton(ran, w, key, clicked, o1, o2, o3) ==
    IF ran.stopped # "" \/ ~clicked THEN ran
    ELSE Complete(IF w.analysis_type = "quick" THEN QuickSummary(ran, key, o1)
                  ELSE IF w.analysis_type = "full" THEN FullAnalysis(ran, key, o1, o2, o3)
                  ELSE SpecificClause(ran, w, key, o1))

\* Lines 320-360: the results are displayed when analysis_complete is set
ResultsShown(ran) == ran.stopped = "" /\ ran.session.analysis_complete
\* Lines 361-394: the export section builds the reports from analysis_results
ExportShown(ran, w) == ResultsShown(ran) /\ w.analysis_type # "specific"
\* generate_text_report(None, ...) raises on analysis.get(...): the run ends
\* in the export section
ExportRaised(ran, w) == ExportShown(ran, w) /\ ran.session.analysis_results = <<>>

\* What a run has shown when it ends: the analyze button is reached after
\* the files are processed, the results and the export section follow the
\* analyze button when analysis_complete is set, and the "Analyze New
\* Contract" button follows the export section.
RunRecord(processed, ran, w, clicked) ==
    [session |-> ran.session,
     run |-> [stopped |-> ran.stopped,
              clicked |-> IF clicked /\ processed.stopped = "" THEN "analyze" ELSE "",
              analyze_button |-> processed.stopped = "",
              results_shown |-> ResultsShown(ran),
              export_shown |-> ExportShown(ran, w),
              export_raised |-> ExportRaised(ran, w),
              new_button |-> ResultsShown(ran) /\ ~ExportRaised(ran, w),
              steps |-> ran.steps,
              ai_failed |-> ran.ai_failed]]

\* The run of the script up to the analyze button
UpToAnalyze(sess, w, cm) == ProcessFiles(UploadSection(Sidebar(sess, cm), w))

\* One run of the script: cm is the value of the comparison checkbox and
\* clicked tells whether the analyze button was clicked.  The result is the
\* session the run leaves and the record of what it did.
RunScript(sess, w, cm, key, clicked, o1, o2, o3) ==
    RunRecord(UpToAnalyze(sess, w, cm),
              AnalyzeButton(UpToAnalyze(sess, w, cm), w, key, clicked, o1, o2, o3),
              w, clicked)

\* reset_analysis of utils/session_manager.py
ResetAnalysis(sess) ==
    [sess EXCEPT !.contract_uploaded = FALSE, !.contract_text = <<>>,
                 !.contract_filename = <<>>, !.analysis_results = <<>>,
                 !.analysis_complete = FALSE, !.clause_results = <<>>,
                 !.contract1_file = <<>>, !.contract2_file = <<>>,
                 !.contract2_text = <<>>, !.contract2_filename = <<>>,
                 !.analysis2_results = <<>>, !.comparison_results = <<>>,
                 !.comparison_mode = FALSE]

notApp ==
    <<parserVars, scoreVars, detectVars, recVars, compareVars, aiVars, clauseVars,
      sessionVars>>
IdleNotApp ==
    IdleParser /\ IdleScore /\ IdleDetect /\ IdleRec /\ IdleCompare /\ IdleAi
        /\ IdleClause /\ IdleSession

\* The state after the first run of the script in a new session: init_session
\* has filled the session and the run stopped at the empty uploader.
InitApp ==
    /\ pc = "app"
    /\ env_api_key \in {"", "sk-key"}
    /\ widgets = FreshWidgets
    /\ session = FreshSession
    /\ event = Event("", FALSE)
    /\ last_run = StoppedRun("upload")
    /\ IdleNotApp

\* A user interaction that leaves the widgets as w and the comparison
\* checkbox as cm; Streamlit answers it with a run of the script.
Interact(w, clicked, cm) ==
    /\ pc = "app"
    /\ widgets' = w
    /\ event' = Event(clicked, cm)
    /\ pc' = "rerun"
    /\ UNCHANGED <<session, env_api_key, last_run, notApp>>

\* The user puts a file into an uploader that is shown, or removes it.  The
\* single uploader is shown outside comparison mode, the other two in it.
UploadSingle ==
    /\ ~session.comparison_mode
    /\ \E f \in {<<>>} \cup {<<file>> : file \in SingleFiles} :
          Interact([widgets EXCEPT !.single_contract_uploader = f], "", FALSE)
UploadContract1 ==
    /\ session.comparison_mode
    /\ \E f \in {<<>>} \cup {<<file>> : file \in Contract1Files} :
          Interact([widgets EXCEPT !.contract1_uploader = f], "", TRUE)
UploadContract2 ==
    /\ session.comparison_mode
    /\ \E f \in {<<>>} \cup {<<file>> : file \in Contract2Files} :
          Interact([widgets EXCEPT !.contract2_uploader = f], "", TRUE)

\* The user picks an analysis type in the sidebar
SelectAnalysisType ==
    \E t \in {"full", "quick", "specific"} :
        Interact([widgets EXCEPT !.analysis_type = t], "", session.comparison_mode)

\* The user picks a clause type; the selectbox is shown for 'specific'
SelectClauseType ==
    /\ widgets.analysis_type = "specific"
    /\ \E c \in ClauseChoices :
          Interact([widgets EXCEPT !.clause_type = c], "", session.comparison_mode)

\* The user ticks or unticks the comparison checkbox.  The checkbox takes its
\* value from session_state.comparison_mode unless the user changes it.
ToggleComparison == Interact(widgets, "", ~session.comparison_mode)

\* The user clicks the analyze button, which the last run has shown
ClickAnalyze ==
    /\ last_run.analyze_button
    /\ Interact(widgets, "analyze", session.comparison_mode)

\* The user clicks "Analyze New Contract", shown with the results
ClickAnalyzeNew ==
    /\ last_run.new_button
    /\ Interact(widgets, "new", session.comparison_mode)

\* What the backend does on the calls of a run: the first call, and the
\* calls for the second contract and the comparison
FirstOutcomes ==
    IF event.clicked = "analyze" /\ env_api_key # ""
    THEN AppOutcomes ELSE {CHOOSE o \in AppOutcomes : TRUE}
SecondOutcomes ==
    IF /\ event.clicked = "analyze" /\ env_api_key # ""
       /\ event.comparison /\ widgets.analysis_type = "full"
    THEN AppOutcomes ELSE {CHOOSE o \in AppOutcomes : TRUE}

\* Streamlit discards the state of a widget that a run does not render:
\* the single uploader in comparison mode, the two comparison uploaders
\* outside it, and the clause selectbox unless the type is 'specific'.
Rendered(w, cm) ==
    [single_contract_uploader |-> IF cm THEN <<>> ELSE w.single_contract_uploader,
     contract1_uploader |-> IF cm THEN w.contract1_uploader ELSE <<>>,
     contract2_uploader |-> IF cm THEN w.contract2_uploader ELSE <<>>,
     analysis_type |-> w.analysis_type,
     clause_type |-> IF w.analysis_type = "specific" THEN w.clause_type
                     ELSE FreshWidgets.clause_type]

\* The end of a run that left out.  A click on "Analyze New Contract" ends
\* the run with reset_analysis() and st.rerun(), which runs the script once
\* more (lines 404-406).
EndRun(out) ==
    IF event.clicked = "new" /\ out.run.new_button
    THEN /\ session' = ResetAnalysis(out.session)
         /\ last_run' = [out.run EXCEPT !.clicked = "new"]
         /\ event' = Event("", FALSE)
         /\ pc' = "rerun"
    ELSE /\ session' = out.session
         /\ last_run' = out.run
         /\ event' = Event("", out.session.comparison_mode)
         /\ pc' = "app"

\* One run of the script in answer to the event
ScriptRun ==
    /\ pc = "rerun"
    /\ widgets' = Rendered(widgets, event.comparison)
    /\ \E o1 \in FirstOutcomes, o2 \in SecondOutcomes, o3 \in SecondOutcomes :
          EndRun(RunScript(session, Rendered(widgets, event.comparison), event.comparison,
                           env_api_key, event.clicked = "analyze", o1, o2, o3))
    /\ UNCHANGED <<env_api_key, notApp>>

NextApp ==
    \/ UploadSingle
    \/ UploadContract1
    \/ UploadContract2
    \/ SelectAnalysisType
    \/ SelectClauseType
    \/ ToggleComparison
    \/ ClickAnalyze
    \/ ClickAnalyzeNew
    \/ ScriptRun
SpecApp == InitApp /\ [][NextApp]_vars

(***************************************************************************)
(* analyze_specific_clause called on a contract text for a clause type.    *)
(***************************************************************************)
\* CLAUSE_TYPES of config/settings.py, the choices of the clause selectbox
CLAUSE_TYPES ==
    <<"Payment Terms", "Liability", "Termination", "Confidentiality",
      "Intellectual Property", "Warranties", "Indemnification", "Dispute Resolution",
      "Force Majeure", "Non-Compete", "Governing Law">>

\* Contract texts for the clause analysis: paragraphs are separated by a
\* blank line
ClauseTexts ==
    { Text("", 0),
      Text("This agreement is made today.", 0),
      Text("Payment of the fee is due.\n\nThe seller is liable and shall indemnify.\n\n"
           \o "Either party may terminate.", 0),
      Text("All information is confidential.\n\nCopyright stays with the author, who "
           \o "gives a warranty.\n\nAny dispute is settled under the governing law.", 0),
      Text("Force majeure: act of god.\n\nNon-Compete: the employee agrees to a "
           \o "non-compete covenant and shall not compete for two years.", 0) }

\* What the backend answers to the clause prompt
ClauseBackendOutcomes ==
    { [raises |-> TRUE, text |-> <<>>] } \cup
    { [raises |-> FALSE, text |-> t] :
        t \in { <<"1. CLAUSE FOUND: Yes", "6. FAVORABILITY: FAVORABLE", "The clause favors you.">>,
                <<"1. CLAUSE FOUND: Yes", "6. FAVORABILITY: UNFAVORABLE",
                  "The clause favors the other party.">>,
                <<"1. CLAUSE FOUND: Yes", "6. FAVORABILITY: NEUTRAL">>,
                <<"1. CLAUSE FOUND: Yes", "5. RISK ASSESSMENT:", "- Risk Level: HIGH",
                  "6. Favorability: Unfavorable">>,
                <<"1. CLAUSE FOUND: No">> } }

\* The arguments of a call: without a key the backend is not called
ClauseCalls ==
    { [contract_text |-> t, clause_type |-> CLAUSE_TYPES[c], api_key |-> "",
       outcome |-> NoBackend] : t \in ClauseTexts, c \in 1..Len(CLAUSE_TYPES) }
    \cup
    { [contract_text |-> t, clause_type |-> CLAUSE_TYPES[c], api_key |-> "sk-key",
       outcome |-> o] :
        t \in ClauseTexts, c \in 1..Len(CLAUSE_TYPES), o \in ClauseBackendOutcomes }

notClause ==
    <<parserVars, scoreVars, detectVars, recVars, compareVars, aiVars, appVars,
      sessionVars>>
IdleNotClause ==
    IdleParser /\ IdleScore /\ IdleDetect /\ IdleRec /\ IdleCompare /\ IdleAi /\ IdleApp
        /\ IdleSession

InitClause ==
    /\ pc = "clause"
    /\ \E call \in ClauseCalls : clause_call = <<call>>
    /\ clause_out = <<>>
    /\ IdleNotClause

\* analyze_specific_clause(contract_text, clause_type, api_key)
CallAnalyzeSpecificClause ==
    /\ pc = "clause"
    /\ clause_out' = <<AnalyzeSpecificClause(clause_call[1].contract_text,
                                             clause_call[1].clause_type,
                                             clause_call[1].api_key,
                                             clause_call[1].outcome)>>
    /\ pc' = "clause_done"
    /\ UNCHANGED <<clause_call, notClause>>

NextClause == CallAnalyzeSpecificClause

SpecClause == InitClause /\ [][NextClause]_vars


(***************************************************************************)
(* The session operations of utils/session_manager.py.  st.session_state   *)
(* is a dictionary: a function from the keys it holds to their values, so  *)
(* that a key may be absent.  A new browser session starts with no key.    *)
(***************************************************************************)
\* The most fields that hold a value other than their initial one at a time
MaxStored == 2

SessionKeys == DOMAIN FreshSession
\* st.session_state.<k> = v
SetKey(d, k, v) == [x \in DOMAIN d \cup {k} |-> IF x = k THEN v ELSE d[x]]
\* if '<k>' not in st.session_state: st.session_state.<k> = v
SetDefault(d, k, v) == IF k \in DOMAIN d THEN d ELSE SetKey(d, k, v)
\* The assignments to the keys of the sequence ks in the order of the source,
\* each of its initial value: unconditional when always holds, and only to
\* an absent key otherwise
RECURSIVE SetEach(_, _, _, _)
SetEach(d, ks, i, always) ==
    IF i > Len(ks) THEN d
    ELSE SetEach(IF always THEN SetKey(d, ks[i], FreshSession[ks[i]])
                 ELSE SetDefault(d, ks[i], FreshSession[ks[i]]),
                 ks, i + 1, always)

\* init_session(): the guarded defaults, then language and number_format
init_session(d) ==
    SetKey(SetKey(SetEach(d, <<"contract_uploaded", "contract_text",
                               "contract_filename", "contract1_file",
                               "analysis_results", "analysis_complete",
                               "clause_results", "comparison_mode",
                               "contract2_file", "contract2_text",
                               "contract2_filename", "analysis2_results",
                               "comparison_results">>, 1, FALSE),
                  "language", "en"),
           "number_format", "international")

\* reset_analysis()
reset_analysis(d) ==
    SetEach(d, <<"contract_uploaded", "contract_text", "contract_filename",
                 "analysis_results", "analysis_complete", "clause_results",
                 "contract1_file", "contract2_file", "contract2_text",
                 "contract2_filename", "analysis2_results", "comparison_results",
                 "comparison_mode">>, 1, TRUE)

\* reset_comparison() that resets the analysis fields as well
reset_comparison_All(d) == reset_analysis(d)

\* reset_comparison()
reset_comparison(d) ==
    SetEach(d, <<"comparison_mode", "contract2_file", "contract2_text",
                 "contract2_filename", "analysis2_results", "comparison_results">>,
            1, TRUE)

\* A value of the field other than its initial value, as the application or
\* another page may store it
StoredValue(k) ==
    IF k \in {"contract_uploaded", "analysis_complete", "comparison_mode"} THEN TRUE
    ELSE IF k = "language" THEN "sv"
    ELSE IF k = "number_format" THEN "swedish"
    ELSE <<k>>
\* The fields of the dictionary that hold a value other than the initial one
Changed(d) == { k \in DOMAIN d : d[k] # FreshSession[k] }

SessionPcs == {"session", "stored", "init_session", "reset_analysis", "reset_comparison"}

notSession ==
    <<parserVars, scoreVars, detectVars, recVars, compareVars, aiVars, appVars,
      clauseVars>>
IdleNotSession ==
    IdleParser /\ IdleScore /\ IdleDetect /\ IdleRec /\ IdleCompare /\ IdleAi /\ IdleApp
        /\ IdleClause

InitSession ==
    /\ pc = "session"
    /\ session_state = <<>>
    /\ IdleNotSession

\* Some code stores a value in a field of st.session_state
StoreField ==
    /\ pc \in SessionPcs
    /\ Cardinality(Changed(session_state)) < MaxStored
    /\ \E k \in SessionKeys \ Changed(session_state) :
           session_state' = SetKey(session_state, k, StoredValue(k))
    /\ pc' = "stored"
    /\ UNCHANGED notSession

CallInitSession ==
    /\ pc \in SessionPcs
    /\ session_state' = init_session(session_state)
    /\ pc' = "init_session"
    /\ UNCHANGED notSession

CallResetAnalysis ==
    /\ pc \in SessionPcs
    /\ session_state' = reset_analysis(session_state)
    /\ pc' = "reset_analysis"
    /\ UNCHANGED notSession

CallResetComparison ==
    /\ pc \in SessionPcs
    /\ session_state' = reset_comparison(session_state)
    /\ pc' = "reset_comparison"
    /\ UNCHANGED notSession

NextSession ==
    \/ StoreField
    \/ CallInitSession
    \/ CallResetAnalysis
    \/ CallResetComparison

SpecSession == InitSession /\ [][NextSession]_vars

(***************************************************************************)
(* Properties of the free-text response parser.                            *)
(***************************************************************************)
\* Number of entries of a risks list that carry a 'text' key
ItemsWithText(risks) == Cardinality({k \in 1..Len(risks) : "text" \in risks[k].keys})

\* C1: parse_analysis_response never raises, whatever the lines of the input.
C1_ParserNeverRaises == pc # "raised"

\* C2: when the scan has ended, every risk item that was started while
\* scanning the risks section is in result['risks'], the last one included,
\* whatever lines follow it.
C2_EveryStartedItemInResult ==
    pc = "done" => ItemsWithText(result.risks) = started

\* The input is a RISK ASSESSMENT header, one item-start line, and continuation
\* lines that hold no section header and start no further item.
SingleItemInput(ls) ==
    /\ Len(ls) >= 2
    /\ DetectSection(Strip(ls[1])) = "risks"
    /\ DetectSection(Strip(ls[2])) = ""
    /\ IsItemStart(Strip(ls[2]))
    /\ \A k \in 3..Len(ls) :
          /\ DetectSection(Strip(ls[k])) = ""
          /\ ~IsItemStart(Strip(ls[k]))

\* C3: a risks section with exactly one item and no later section header
\* yields exactly that one item: its text begins with the item-start line's
\* text and holds every plain continuation line.
C3_SingleItemFlushed ==
    (pc = "done" /\ SingleItemInput(lines)) =>
        /\ Len(result.risks) = 1
        /\ "text" \in result.risks[1].keys
        /\ StartsWith(result.risks[1].text, Strip(LStripSet(Strip(lines[2]), {"#", "*", " "})))
        /\ \A k \in 3..Len(lines) :
              (Strip(lines[k]) # "" /\ ~IsRiskLevelLine(lines[k]))
                  => Contains(result.risks[1].text, Strip(lines[k]))

C3_Witness ==
    /\ pc = "done"
    /\ SingleItemInput(lines)
    /\ Len(lines) >= 3
    /\ Len(result.risks) = 1
    /\ result.risks[1].text = "Risk 1: Late fees Fees are due late"

\* C4: for a response with the six headers once, in the prompt's order, and
\* two items under each list section, every list field of the result has
\* exactly the 2 entries of its section, in input order.
C4_RoundTripTwoEntries ==
    (pc = "done" /\ lines \in RoundTripInputs) =>
        /\ result.key_terms = <<"Net 30 days", "Term of one year">>
        /\ Len(result.risks) = 2
        /\ Contains(result.risks[1].text, "Unlimited liability")
        /\ Contains(result.risks[2].text, "Late fees")
        /\ result.red_flags = <<"Ambiguous scope", "One-sided exit">>
        /\ result.missing_clauses = <<"Force Majeure", "Governing Law">>
        /\ result.recommendations = <<"Cap the liability", "Add a notice period">>

\* Line k of the input lies in the risks section, after an item-start line,
\* and holds the embedded recommendation; the input has no RECOMMENDATIONS header.
EmbeddedRecommendationInput(ls) ==
    /\ \E j \in 1..Len(ls) : \E k \in (j + 2)..Len(ls) :
          /\ DetectSection(Strip(ls[j])) = "risks"
          /\ DetectSection(Strip(ls[j + 1])) = ""
          /\ IsItemStart(Strip(ls[j + 1]))
          /\ \A m \in (j + 2)..(k - 1) : DetectSection(Strip(ls[m])) = ""
          /\ Contains(ls[k], "**Recommendation**: Do X.")
    /\ \A k \in 1..Len(ls) : ~Contains(Upper(ls[k]), "RECOMMENDATIONS")

\* C5: with fewer than 2 recommendations collected and a risks-section item
\* holding '**Recommendation**: Do X.', the returned recommendations contain
\* the trimmed trailing text 'Do X.'.
C5_FallbackLiftsEmbedded ==
    (pc = "done" /\ EmbeddedRecommendationInput(lines)) =>
        "Do X." \in SeqRange(result.recommendations)

(***************************************************************************)
(* Properties of the score aggregator.                                     *)
(***************************************************************************)
CountLevel(risks, l) == Cardinality({k \in 1..Len(risks) : risks[k].level = l})

\* C6: the returned level is the class of the weighted sum 100 per CRITICAL,
\* 50 per HIGH, 20 per MEDIUM, 5 per LOW, 0 per MINIMAL finding: >=100
\* CRITICAL, >=50 HIGH, >=20 MEDIUM, >0 LOW, else MINIMAL; the empty list
\* gives MINIMAL and [HIGH, HIGH] gives CRITICAL.
C6_WeightedSumClassification ==
    pc = "score" =>
        LET sum == 100 * CountLevel(risks_in, "CRITICAL") + 50 * CountLevel(risks_in, "HIGH")
                   + 20 * CountLevel(risks_in, "MEDIUM") + 5 * CountLevel(risks_in, "LOW")
        IN /\ sum >= 100 => overall = "CRITICAL"
           /\ (sum >= 50 /\ sum < 100) => overall = "HIGH"
           /\ (sum >= 20 /\ sum < 50) => overall = "MEDIUM"
           /\ (sum > 0 /\ sum < 20) => overall = "LOW"
           /\ sum = 0 => overall = "MINIMAL"
           /\ risks_in = <<>> => overall = "MINIMAL"
           /\ risks_in = <<[level |-> "HIGH"], [level |-> "HIGH"]>> => overall = "CRITICAL"

C6_Witness ==
    /\ pc = "score"
    /\ risks_in = <<[level |-> "HIGH"], [level |-> "HIGH"]>>
    /\ overall = "CRITICAL"

\* C7: raising the level of one finding, the number of findings unchanged,
\* never makes the aggregator return a less severe level.
C7_RaiseNeverLowers ==
    (pc = "score" /\ last_op = "raise") => Rank(overall) >= Rank(prev_overall)

C7_Witness ==
    /\ pc = "score"
    /\ last_op = "raise"
    /\ Len(risks_in) >= 2
    /\ Rank(overall) > Rank(prev_overall)

(***************************************************************************)
(* Properties of the automated risk detector.                              *)
(***************************************************************************)
\* C8: in every result of run_automated_risk_detection, overall_risk is the
\* aggregator's level for the result's own risks list and risk_count is the
\* length of that list.
C8_OverallDerivedFromRisks ==
    pc = "detected" =>
        /\ detection.overall_risk = CalculateOverallRiskScore(detection.risks)
        /\ detection.risk_count = Len(detection.risks)

C8_Witness ==
    /\ pc = "detected"
    /\ detection.risk_count = 5
    /\ \E k \in 1..Len(detection.risks) : detection.risks[k].category = "Liability"
    /\ detection.overall_risk = "CRITICAL"

HasFinding(risks, level, category, description) ==
    \E k \in 1..Len(risks) :
        /\ risks[k].level = level
        /\ risks[k].category = category
        /\ risks[k].description = description

\* C9: for empty or whitespace-only text all 8 clause categories are
\* reported missing and the risks hold the 3 Payment Terms findings.
C9_EmptyTextFindings ==
    (pc = "detected" /\ Strip(contract_text) = "") =>
        /\ Len(detection.missing_clauses) = 8
        /\ SeqRange(detection.missing_clauses) =
              {"Confidentiality", "Intellectual Property", "Dispute Resolution",
               "Force Majeure", "Governing Law", "Warranties", "Non-Compete", "Assignment"}
        /\ HasFinding(detection.risks, "HIGH", "Payment Terms", "No clear payment terms found")
        /\ HasFinding(detection.risks, "MEDIUM", "Payment Terms", "No late payment terms specified")
        /\ HasFinding(detection.risks, "LOW", "Payment Terms", "No detailed payment schedule")

C9_Witness ==
    /\ pc = "detected"
    /\ contract_text = "   "
    /\ Len(detection.missing_clauses) = 8
    /\ detection.risk_count = 4

\* C10: a category of the 8-category table is reported missing if and only
\* if none of its keywords is a substring of the lower-cased text.
C10_MissingIffNoKeyword ==
    pc = "detected" =>
        \A c \in 1..Len(ImportantClauses) :
            (ImportantClauses[c].clause_type \in SeqRange(detection.missing_clauses))
            <=> (\A kw \in SeqRange(ImportantClauses[c].keywords) :
                    ~Contains(Lower(contract_text), kw))

C10_Witness ==
    /\ pc = "detected"
    /\ contract_text = "Force Majeure"
    /\ "Force Majeure" \notin SeqRange(detection.missing_clauses)
    /\ "Confidentiality" \in SeqRange(detection.missing_clauses)

(***************************************************************************)
(* Properties of the recommendation synthesizer.                           *)
(***************************************************************************)
\* C11: for a risks list of more than 10 findings the returned list contains
\* the catch-all legal-professional recommendation, whatever the missing clauses.
C11_CatchAllPresent ==
    (pc = "recommended" /\ Len(rec_risks) > 10) =>
        \E i \in 1..Len(rec_out) : rec_out[i] = RecLegalProfessional

\* The place of a recommendation in the priority order payment, liability,
\* termination, confidentiality, dispute resolution, force majeure, governing
\* law, intellectual property; the catch-all comes after them.
PriorityOf(rec) ==
    IF rec \in {RecPaymentTerms, RecLatePayment} THEN 1
    ELSE IF rec \in {RecLiabilityCap, RecIndemnification} THEN 2
    ELSE IF rec \in {RecTerminationRights, RecTerminationPenalty} THEN 3
    ELSE IF rec = RecConfidentiality THEN 4
    ELSE IF rec = RecDisputeResolution THEN 5
    ELSE IF rec = RecForceMajeure THEN 6
    ELSE IF rec = RecGoverningLaw THEN 7
    ELSE IF rec = RecIntellectualProperty THEN 8
    ELSE 9

\* C12: the returned list has at most 10 entries and a later category's
\* recommendation never precedes an earlier category's.
C12_CappedAndOrdered ==
    pc = "recommended" =>
        /\ Len(rec_out) <= 10
        /\ \A i \in 1..Len(rec_out) : \A j \in (i + 1)..Len(rec_out) :
              PriorityOf(rec_out[i]) <= PriorityOf(rec_out[j])

C12_Witness ==
    /\ pc = "recommended"
    /\ Len(rec_out) = 10
    /\ "Intellectual Property" \in SeqRange(rec_missing)
    /\ \A i \in 1..Len(rec_out) : PriorityOf(rec_out[i]) # 8
    /\ PriorityOf(rec_out[1]) = 1 /\ PriorityOf(rec_out[10]) = 7


(***************************************************************************)
(* Properties of the rule-based comparison.                                *)
(***************************************************************************)
\* The set of clause types an analysis lists as missing
MissingOf(analysis) ==
    IF "missing_clauses" \in DOMAIN analysis[1]
    THEN {analysis[1].missing_clauses[k] : k \in 1..Len(analysis[1].missing_clauses)}
    ELSE {}

\* C13: unique_to_contract1 is missing(contract2) minus missing(contract1) and
\* unique_to_contract2 is missing(contract1) minus missing(contract2); with
\* contract 1 missing {Force Majeure} and contract 2 missing nothing,
\* unique_to_contract1 is empty and unique_to_contract2 is {Force Majeure}.
C13_UniqueMissingDirection ==
    pc = "compared" =>
        /\ comparison[1].unique_to_contract1 =
              MissingOf(contract2_analysis) \ MissingOf(contract1_analysis)
        /\ comparison[1].unique_to_contract2 =
              MissingOf(contract1_analysis) \ MissingOf(contract2_analysis)
        /\ (MissingOf(contract1_analysis) = {"Force Majeure"}
              /\ MissingOf(contract2_analysis) = {})
            => /\ comparison[1].unique_to_contract1 = {}
               /\ comparison[1].unique_to_contract2 = {"Force Majeure"}

C13_Witness ==
    /\ pc = "compared"
    /\ MissingOf(contract1_analysis) = {"Force Majeure"}
    /\ MissingOf(contract2_analysis) = {}
    /\ comparison[1].unique_to_contract2 = {"Force Majeure"}
    /\ comparison[1].unique_to_contract1 = {}

\* The comparator's score table as the specification states it
TableScore ==
    [lv \in {"CRITICAL", "HIGH", "MEDIUM", "LOW", "MINIMAL"} |->
        IF lv = "CRITICAL" THEN 100 ELSE IF lv = "HIGH" THEN 75
        ELSE IF lv = "MEDIUM" THEN 50 ELSE IF lv = "LOW" THEN 25 ELSE 10]
HasLabel(analysis) == "overall_risk" \in DOMAIN analysis[1]

\* C14: the side whose overall_risk label has the lower score in the table
\* CRITICAL=100, HIGH=75, MEDIUM=50, LOW=25, MINIMAL=10 is the better
\* contract, and two sides with the same label give NEUTRAL whatever the
\* numbers of findings.
C14_LowerScoreWins ==
    (pc = "compared" /\ HasLabel(contract1_analysis) /\ HasLabel(contract2_analysis)) =>
        LET l1 == contract1_analysis[1].overall_risk
            l2 == contract2_analysis[1].overall_risk
        IN /\ l1 = l2 => comparison[1].better_contract = "NEUTRAL"
           /\ (l1 \in DOMAIN TableScore /\ l2 \in DOMAIN TableScore) =>
                /\ TableScore[l1] < TableScore[l2] =>
                      comparison[1].better_contract = "CONTRACT1"
                /\ TableScore[l2] < TableScore[l1] =>
                      comparison[1].better_contract = "CONTRACT2"

C14_Witness ==
    /\ pc = "compared"
    /\ HasLabel(contract1_analysis) /\ HasLabel(contract2_analysis)
    /\ contract1_analysis[1].overall_risk = "HIGH"
    /\ contract2_analysis[1].overall_risk = "HIGH"
    /\ Len(contract1_analysis[1].risks) = 0
    /\ Len(contract2_analysis[1].risks) = MaxCmpRisks
    /\ comparison[1].better_contract = "NEUTRAL"


(***************************************************************************)
(* Properties of the functions that call the completion backend.           *)
(***************************************************************************)
\* The call reached client.messages.create and it raised
BackendRaised ==
    /\ pc \in {"returned", "raised"}
    /\ backend.raises
    /\ (api_key # "" \/ called = "get_quick_summary")

\* C15 as stated: when the backend call raises, each of analyze_contract,
\* get_quick_summary, extract_clause_with_ai and compare_contracts catches
\* the error and returns None.
C15_AllReturnNone ==
    BackendRaised => (~returned.raised /\ returned.value = <<>>)

\* C15, amended: when the backend call raises, none of the four functions
\* lets the error out; analyze_contract, get_quick_summary and
\* extract_clause_with_ai return None, and compare_contracts returns the
\* rule-based comparison of the two analyses.
C15_CatchAndFallBack ==
    BackendRaised =>
        /\ ~returned.raised
        /\ called \in {"analyze_contract", "get_quick_summary", "extract_clause_with_ai"}
              => returned.value = <<>>
        /\ called = "compare_contracts" =>
              /\ Len(returned.value) = 1
              /\ returned.value[1].ai_comparison = FALSE
              /\ returned.value[1].contract1_risk = contract1_analysis[1].overall_risk
              /\ returned.value[1].contract2_risk = contract2_analysis[1].overall_risk

C15_Witness ==
    /\ BackendRaised
    /\ called = "compare_contracts"
    /\ Len(returned.value) = 1
    /\ returned.value[1].ai_comparison = FALSE


(***************************************************************************)
(* Properties of the application.                                          *)
(***************************************************************************)
\* C16: in the full-analysis flow with an API key, when analyze_contract
\* returns None the application falls back to the automated risk detector:
\* the detector runs on the contract, its result is stored as the session's
\* analysis result, and the analysis completes.
C16_FallsBackToDetector ==
    (/\ pc = "app" /\ last_run.clicked = "analyze" /\ last_run.ai_failed
     /\ env_api_key # "" /\ widgets.analysis_type = "full")
    => /\ last_run.stopped = ""
       /\ session.analysis_complete
       /\ session.analysis_results # <<>>
       /\ \E st \in last_run.steps : st.fn = "run_automated_risk_detection"

\* A text that validate_contract_text must accept: not blank and of 500 to
\* 500000 characters
Acceptable(t) == ~IsBlank(t) /\ TextLen(t) >= 500 /\ TextLen(t) <= 500000
\* The file in the uploader shown for the first and for the second contract
ShownFile1 ==
    IF session.comparison_mode THEN widgets.contract1_uploader
    ELSE widgets.single_contract_uploader
ShownFile2 == IF session.comparison_mode THEN widgets.contract2_uploader ELSE <<>>
\* The text extracted from the file is not acceptable
RejectedFile(f) == f # <<>> /\ f[1].error = "" /\ ~Acceptable(CleanText(f[1].text))

\* C17: no analysis step of a run is made on a text that is blank, shorter
\* than 500 or longer than 500000 characters, and a run in which the text of
\* contract 1, or in comparison mode of contract 2, is such a text stops
\* without showing the analyze button.
C17_NoStepOnRejectedText ==
    pc = "app" =>
        /\ \A st \in last_run.steps : Acceptable(st.text)
        /\ (RejectedFile(ShownFile1) \/ RejectedFile(ShownFile2)) =>
              /\ ~last_run.analyze_button
              /\ last_run.steps = {}
              /\ last_run.stopped \in {"upload", "extract1", "validate1", "validate2"}

C17_Witness ==
    /\ pc = "app"
    /\ session.comparison_mode
    /\ ~RejectedFile(ShownFile1) /\ RejectedFile(ShownFile2)
    /\ TextLen(CleanText(ShownFile2[1].text)) = 500001
    /\ last_run.stopped = "validate2"
    /\ session.analysis_complete


(***************************************************************************)
(* Properties of the parser's scan: sections, risk items, summary lines.   *)
(***************************************************************************)
\* The six section headers the response format names
HeaderSubstrings ==
    {"EXECUTIVE SUMMARY", "KEY TERMS", "RISK ASSESSMENT", "RED FLAGS", "MISSING CLAUSES",
     "RECOMMENDATIONS"}
\* The line holds one of the six headers, case-insensitively
HoldsHeader(line) == \E h \in HeaderSubstrings : Contains(Upper(line), h)
\* The scan is about to take the line at idx
Scanning == pc = "scan" /\ idx <= Len(lines)

DetectedSubstrings ==
    {"EXECUTIVE SUMMARY", "KEY TERMS", "RISK ASSESSMENT", "RED FLAG", "MISSING CLAUSE",
     "RECOMMENDATION"}
\* The line, its '#' characters removed, holds one of them case-insensitively
HoldsDetected(line) ==
    \E h \in DetectedSubstrings : Contains(Upper(RemoveChars(line, {"#"})), h)

IsMarkerLine(line) ==
    \/ StartsWith(line, "-") \/ StartsWith(line, Bullet) \/ StartsWith(line, "*")
    \/ StartsWith(line, "#") \/ NumberedPrefix(line)
\* The scan is about to take a content line in the risks section and does
\* not raise on it
ScanningRisks ==
    /\ Scanning /\ current_section = "risks"
    /\ Strip(lines[idx]) # "" /\ DetectSection(Strip(lines[idx])) = ""

\* C19: in the risks section every line containing 'Risk Level:' sets the
\* level of the current item to the first of CRITICAL, HIGH, MEDIUM, LOW,
\* MINIMAL found in the line and starts no new item; only lines that start
\* with a bullet or heading marker start a new item, and the item before it
\* is appended to the risks; every other line is joined by a space onto the
\* current item's text.
C19_RiskLevelLineSetsLevel ==
    [][(ScanningRisks /\ pc' = "scan") =>
         LET line == Strip(lines[idx]) IN
         /\ Contains(line, "Risk Level:") =>
               /\ started' = started /\ result' = result
               /\ FirstLevelIn(line) # "" =>
                     /\ "level" \in current_item'.keys
                     /\ current_item'.level = FirstLevelIn(line)
         /\ started' # started =>
               /\ IsMarkerLine(line)
               /\ Truthy(current_item) => result'.risks = Append(result.risks, current_item)
         /\ (/\ ~Contains(line, "Risk Level:") /\ started' = started
             /\ "text" \in current_item.keys) =>
               current_item' = [current_item EXCEPT !.text = @ \o " " \o line]]_vars


\* The level token the claim names for a line: the first of CRITICAL, HIGH,
\* MEDIUM, LOW, MINIMAL, in this order, that is a substring of the
\* upper-cased line; "" when there is none
LevelToken(line) ==
    LET up == Upper(line) IN
    IF Contains(up, "CRITICAL") THEN "CRITICAL"
    ELSE IF Contains(up, "HIGH") THEN "HIGH"
    ELSE IF Contains(up, "MEDIUM") THEN "MEDIUM"
    ELSE IF Contains(up, "LOW") THEN "LOW"
    ELSE IF Contains(up, "MINIMAL") THEN "MINIMAL"
    ELSE ""
\* The line's text before its first 'overall risk', emphasis asterisks
\* removed and whitespace collapsed
BeforeOverallRisk(line) ==
    LET text == NormalizeSpaces(RemoveChars(line, {"*"}))
    IN Strip(SubSeq(text, 1, FindFirst(Lower(text), "overall risk") - 1))
\* What the claim says an 'overall risk' line does to the result
OverallRiskLineEffect(line) ==
    /\ result'.overall_risk =
          IF LevelToken(line) # "" THEN LevelToken(line) ELSE result.overall_risk
    /\ result'.summary =
          IF BeforeOverallRisk(line) # ""
          THEN result.summary \o BeforeOverallRisk(line) \o " "
          ELSE result.summary
\* The scan is about to take a non-empty line in the summary section
ScanningSummary ==
    Scanning /\ current_section = "summary" /\ Strip(lines[idx]) # ""

\* C20: in the summary section, for a line containing 'overall risk'
\* (case-insensitive), overall_risk is set to the first level token, in the
\* order CRITICAL, HIGH, MEDIUM, LOW, MINIMAL, that is a substring of the
\* upper-cased full line; only the text before the phrase is appended to the
\* summary; a line with no level token leaves overall_risk unchanged.
C20_OverallRiskLine ==
    [][(ScanningSummary /\ Contains(Lower(lines[idx]), "overall risk")) =>
         OverallRiskLineEffect(Strip(lines[idx]))]_vars

\* C20, amended: the same for a line that does not start with '#' and is
\* not a section header; a line that starts with '#' is skipped, it changes
\* neither overall_risk nor the summary.
C20_OverallRiskLineUnlessHeading ==
    [][(ScanningSummary /\ Contains(Lower(lines[idx]), "overall risk")) =>
         LET line == Strip(lines[idx]) IN
         IF StartsWith(line, "#") \/ HoldsDetected(line)
         THEN result' = result
         ELSE OverallRiskLineEffect(line)]_vars

\* The scan has taken a summary line with text before 'OVERALL RISK' and
\* the tokens 'low' and 'medium' after it: MEDIUM, first in the fixed order,
\* is the overall risk and the text before the phrase is in the summary.
C20_Witness ==
    /\ pc = "scan" /\ idx = 3
    /\ DetectSection(Strip(lines[1])) = "summary"
    /\ lines[2] = "Mostly fair. OVERALL RISK: low to medium"
    /\ result.overall_risk = "MEDIUM"
    /\ result.summary = "Mostly fair. "


\* The three sections whose lines are collected as plain lists
ListSections == {"key_terms", "red_flags", "missing_clauses"}
\* The line begins with a bullet marker or with the number of a numbered item
IsListItemLine(line) ==
    StartsWith(line, "-") \/ StartsWith(line, Bullet) \/ NumberedPrefix(line)
\* What is left of a line when its leading bullet and number punctuation is removed
ItemText(line) ==
    Strip(LStripSet(line, {"-", Bullet, "*", ".", " ", ")"} \cup Digits))
\* The scan is about to take a content line of one of the list sections
ScanningList ==
    /\ Scanning /\ current_section \in ListSections
    /\ Strip(lines[idx]) # "" /\ DetectSection(Strip(lines[idx])) = ""

\* C21: in the key_terms, red_flags and missing_clauses sections every line
\* that begins with '-', the bullet character or a digit is appended to the
\* section's list, its leading bullet and number punctuation removed, in
\* input order; a line that begins with anything else is not appended.
C21_ListItemsAppended ==
    [][ScanningList =>
         LET line == Strip(lines[idx])
             before == result[current_section]
             after == result'[current_section]
         IN IF IsListItemLine(line) /\ ItemText(line) # ""
            THEN /\ Len(after) = Len(before) + 1
                 /\ SubSeq(after, 1, Len(before)) = before
                 /\ Contains(line, after[Len(after)])
            ELSE after = before]_vars


\* The text of a recommendation line behind its bullet or number
RecommendationText(line) == Strip(LStripSet(line, {"-", Bullet, ".", " "} \cup Digits))
\* The scan is about to take a content line of the recommendations section
ScanningRecommendations ==
    /\ Scanning /\ current_section = "recommendations"
    /\ Strip(lines[idx]) # "" /\ DetectSection(Strip(lines[idx])) = ""

IsAiAnalysis(stored) == stored # <<>> /\ "raw_response" \in DOMAIN stored[1]
\* The overall risk and summary the parser read from the backend's text
KeepsAiReading(stored) ==
    LET parsed == ParseAnalysisResponse(stored[1].raw_response).result
    IN /\ stored[1].overall_risk = parsed.overall_risk
       /\ stored[1].summary = parsed.summary

\* C23: a stored analysis into which the detector's risks, missing clauses
\* and recommendations were merged keeps the overall_risk and the summary
\* the parser read from the AI text; overall_risk is not recomputed from the
\* enlarged risks list.
C23_MergeKeepsOverallRisk ==
    (pc = "app" /\ last_run.clicked = "analyze") =>
        /\ IsAiAnalysis(session.analysis_results) =>
              KeepsAiReading(session.analysis_results)
        /\ IsAiAnalysis(session.analysis2_results) =>
              KeepsAiReading(session.analysis2_results)

\* The merge has enlarged the risks list of the first contract's analysis
\* and the detector's overall risk for that contract differs from the AI's.
C23_Witness ==
    /\ pc = "app" /\ last_run.clicked = "analyze"
    /\ IsAiAnalysis(session.analysis_results)
    /\ session.contract_text # <<>>
    /\ LET stored == session.analysis_results[1]
           automated == RunAutomatedRiskDetection(session.contract_text[1].body)
       IN /\ last_run.steps # {}
          /\ automated.risks # <<>>
          /\ Len(stored.risks) >
                Len(ParseAnalysisResponse(stored.raw_response).result.risks)
          /\ automated.overall_risk # stored.overall_risk


\* C24: whenever a run renders the export section (analysis_complete is set
\* and the selected analysis type is not 'specific'), the session's
\* analysis_results is not None, so the report generators are never called
\* with None.
C24_ExportHasResults ==
    (pc = "app" /\ last_run.export_shown) => session.analysis_results # <<>>


\* The stored analysis is one that a full analysis of the text t gives,
\* whatever the backend answers
ComputedFrom(t, stored) ==
    \E o \in AppOutcomes :
        AnalyzeOne(t, env_api_key, o,
                   "Automated rule-based analysis (AI analysis requires API key)").results
            = stored
\* The run has displayed the stored analysis of a full analysis
AnalysisDisplayed ==
    /\ pc = "app" /\ last_run.results_shown
    /\ widgets.analysis_type = "full"
    /\ session.analysis_results # <<>>
    /\ "risks" \in DOMAIN session.analysis_results[1]
    /\ "key_terms" \in DOMAIN session.analysis_results[1]

\* C25: whenever analysis results are displayed or exported, the stored
\* analysis_results were computed from the contract text the session holds:
\* uploading a different file after an analysis never leaves the previous
\* contract's results shown under the new contract's filename.
C25_ResultsOfCurrentContract ==
    AnalysisDisplayed => ComputedFrom(session.contract_text[1], session.analysis_results)


(***************************************************************************)
(* Further properties of the detector and the score aggregator.            *)
(***************************************************************************)
CountCategory(risks, c) == Cardinality({k \in 1..Len(risks) : risks[k].category = c})

\* C26: run_automated_risk_detection gives at most 7 findings: at most 3
\* payment, 2 liability and 2 termination findings, 'No termination clause
\* found' and 'No notice period specified' never both; so len(risks) > 10
\* never holds for the detector's own list and its recommendations never
\* hold the catch-all legal-professional entry.
C26_AtMostSevenFindings ==
    pc = "detected" =>
        /\ Len(detection.risks) <= 7
        /\ CountCategory(detection.risks, "Payment Terms") <= 3
        /\ CountCategory(detection.risks, "Liability") <= 2
        /\ CountCategory(detection.risks, "Termination") <= 2
        /\ ~(/\ HasFinding(detection.risks, "HIGH", "Termination",
                           "No termination clause found")
             /\ HasFinding(detection.risks, "MEDIUM", "Termination",
                           "No notice period specified"))
        /\ RecLegalProfessional \notin SeqRange(detection.recommendations)

\* The detector has found 7 risks, 3 payment, 2 liability and 2 termination.
C26_Witness ==
    /\ pc = "detected"
    /\ Len(detection.risks) = 7
    /\ CountCategory(detection.risks, "Payment Terms") = 3
    /\ CountCategory(detection.risks, "Liability") = 2
    /\ CountCategory(detection.risks, "Termination") = 2
    /\ RecLegalProfessional \notin SeqRange(detection.recommendations)


\* C27: for a non-empty list of findings with known levels the aggregator
\* returns a level at least as severe as the most severe finding of the list
\* (MINIMAL < LOW < MEDIUM < HIGH < CRITICAL), and appending a finding to a
\* list never lowers the returned level.
C27_AtLeastMostSevere ==
    pc = "score" =>
        /\ \A k \in 1..Len(risks_in) : Rank(overall) >= Rank(risks_in[k].level)
        /\ last_op = "append" => Rank(overall) >= Rank(prev_overall)

\* A third MEDIUM finding was appended to two MEDIUM findings: the level
\* has risen to HIGH, above every finding of the list.
C27_Witness ==
    /\ pc = "score" /\ last_op = "append"
    /\ risks_in = <<[level |-> "MEDIUM"], [level |-> "MEDIUM"], [level |-> "MEDIUM"]>>
    /\ prev_overall = "MEDIUM"
    /\ overall = "HIGH"


(***************************************************************************)
(* Properties of the clause analysis.                                      *)
(***************************************************************************)
\* The value a FAVORABILITY line names: UNFAVORABLE, FAVORABLE or NEUTRAL
NamedFavorability(line) ==
    LET up == Upper(line) IN
    IF Contains(up, "UNFAVORABLE") THEN "UNFAVORABLE"
    ELSE IF Contains(up, "FAVORABLE") THEN "FAVORABLE"
    ELSE IF Contains(up, "NEUTRAL") THEN "NEUTRAL"
    ELSE ""
\* The call had a key and the backend answered: the answer was parsed
ClauseParsed ==
    /\ pc = "clause_done"
    /\ clause_call[1].api_key # "" /\ ~clause_call[1].outcome.raises

\* C28: parse_clause_analysis sets favorability to the value named on the
\* 'FAVORABILITY:' line: FAVORABLE, UNFAVORABLE or NEUTRAL.
C28_FavorabilityAsNamed ==
    ClauseParsed =>
        \A k \in 1..Len(clause_call[1].outcome.text) :
            LET line == clause_call[1].outcome.text[k] IN
            (Contains(Upper(line), "FAVORABILITY:") /\ NamedFavorability(line) # "") =>
                clause_out[1].favorability = NamedFavorability(line)

\* Some paragraph of the text, split at blank lines, holds a keyword of the
\* clause type
SomeParagraphMatches(t, clause_type) ==
    LET paragraphs == Split(t.body, "\n\n")
    IN \E p \in 1..Len(paragraphs) : ParagraphMatches(paragraphs[p], clause_type)

\* C30: without an API key analyze_specific_clause returns found=True
\* exactly when some blank-line-separated paragraph of the contract holds a
\* keyword of the requested clause type, and for every clause type of
\* CLAUSE_TYPES, 'Non-Compete' included, some contract text gives found=True.
C30_EveryClauseTypeFindable ==
    /\ (pc = "clause_done" /\ clause_call[1].api_key = "") =>
          (clause_out[1].found <=>
              SomeParagraphMatches(clause_call[1].contract_text,
                                   clause_call[1].clause_type))
    /\ \A c \in 1..Len(CLAUSE_TYPES) :
          \E t \in ClauseTexts :
              AnalyzeSpecificClause(t, CLAUSE_TYPES[c], "", NoBackend).found


(***************************************************************************)
(* Properties of the session operations.                                   *)
(***************************************************************************)
ComparisonFields ==
    {"comparison_mode", "contract2_file", "contract2_text", "contract2_filename",
     "analysis2_results", "comparison_results"}
KeptByResetComparison ==
    {"contract_text", "contract_filename", "analysis_results", "analysis_complete",
     "clause_results"}
PreferenceFields == {"language", "number_format"}
\* The field is the same in the dictionaries before and after: absent in
\* both, or present in both with one value
SameField(before, after, k) ==
    /\ (k \in DOMAIN before) = (k \in DOMAIN after)
    /\ k \in DOMAIN before => after[k] = before[k]

\* C29: reset_comparison changes no field other than the six comparison
\* fields, so contract_text, contract_filename, analysis_results,
\* analysis_complete and clause_results stay as they were; reset_analysis
\* leaves every field other than language and number_format at its initial
\* value; init_session leaves every field that was present, other than
\* language and number_format, with the value it had.
C29_SessionFrames ==
    [][ /\ pc' = "reset_comparison" =>
            \A k \in (SessionKeys \ ComparisonFields) \cup KeptByResetComparison :
                SameField(session_state, session_state', k)
        /\ pc' = "reset_analysis" =>
            \A k \in SessionKeys \ PreferenceFields :
                k \in DOMAIN session_state' /\ session_state'[k] = FreshSession[k]
        /\ pc' = "init_session" =>
            \A k \in DOMAIN session_state \ PreferenceFields :
                session_state'[k] = session_state[k] ]_vars
\* reset_comparison has run on a session that holds analysis results and a
\* contract text, and both are still there
C29_Witness ==
    /\ pc = "reset_comparison"
    /\ DOMAIN session_state = SessionKeys
    /\ session_state["analysis_results"] # <<>>
    /\ session_state["contract_text"] # <<>>
    /\ \A k \in ComparisonFields : session_state[k] = FreshSession[k]

====
